---- MODULE Spec2Model ----
(***************************************************************************)
(* Model of the review-consumption pipeline of the cardinality-analysis    *)
(* repository (UnmergeWorksheetConsumer in worksheet_consume.py) together  *)
(* with the classification tables of entity.py it writes.                  *)
(*                                                                         *)
(* The database is a pair (db, tx): db is the committed content of the     *)
(* four classification tables, tx is the content seen by the open session  *)
(* (committed content plus the statements issued since the last commit).   *)
(* session.commit() copies tx to db, session.rollback() copies db to tx.   *)
(* consume() is followed step by step (pc) because every statement of it   *)
(* can raise and its two try blocks behave differently.                    *)
(***************************************************************************)
EXTENDS Bags, FiniteSets, Integers, Sequences, TLC

VARIABLES
    db,            \* committed content of WhiteList, BlackList, InvalidSSN, Unmerge
    tx,            \* content as seen by the session (uncommitted statements applied)
    worksheet,     \* the reviewed worksheet file at worksheet_path
    worksheet_df,  \* self.worksheet_df: None or the loaded rows
    entity_type,   \* self.entity_type of the consumer of the current run
    job_id,        \* self.job_id of the current run (0: no run yet)
    pc,            \* position of the current run inside consume()
    err,           \* exception that left consume(), "none" when none did
    summary,       \* content of the summary file in output_dir, None when absent
    raisedIn,      \* try block whose except clause ran in the current run (0: none)
    raisedAt,      \* history: the step of consume() that raised, "none" when none did
    dbStart,       \* history: db when the current run started
    dbPhase1,      \* history: db as committed by Phase 1 of the current run, None before
    prev           \* history: outcome of the previous run, None for the first one

consume_vars == << db, tx, worksheet, worksheet_df, entity_type, job_id, pc, err,
                   summary, raisedIn, raisedAt, dbStart, dbPhase1, prev >>

(***************************************************************************)
(* The worksheet builder and the pure functions it is made of.  Each has   *)
(* its inputs, its locals and its outputs as variables; a function that    *)
(* has not been called has None as its output.                             *)
(***************************************************************************)
VARIABLES
    children,             \* worksheet_builder.py: the PersonChild rows of a build, empty outside a build
    token_to_smash,       \* _compute_smash_ids(children), empty before
    sheet,                \* _build_core(...), empty before
    token_smashids,       \* assign_group_ids: the argument, a list of (TokenID, SmashID)
    group_id_counter,     \* GroupIdAssigner.group_id_counter
    smashid_to_tokenids,  \* assign_group_ids: local dict, SmashID -> list of TokenID
    unassigned_smashids,  \* assign_group_ids: local set
    result,               \* assign_group_ids: local dict TokenID -> GroupID, returned at the end
    rounds,               \* history: primary, GroupID and joined SmashIDs of every while iteration
    gpc                   \* position inside the build / inside assign_group_ids

cluster_vars == << children, token_to_smash, sheet, token_smashids, group_id_counter,
                   smashid_to_tokenids, unassigned_smashids, result, rounds, gpc >>

VARIABLES
    bitarray,             \* bitarray_util.py: argument of convert_bitarray_to_string
    enrolled_char,        \* marker of a 1
    not_enrolled_char,    \* marker of a 0
    enrollment_string,    \* convert_bitarray_to_string(...), None before
    decoded               \* convert_string_to_bitarray(enrollment_string, enrolled_char), None before

codec_vars == << bitarray, enrolled_char, not_enrolled_char, enrollment_string, decoded >>

VARIABLES
    name,                 \* smashid_util.py: argument of create_smash_id
    smash_results         \* the values returned by create_smash_id, applied to name and then
                          \* to its own result

smash_vars == << name, smash_results >>

VARIABLES
    school_year,          \* k12_processor.py: arguments of compute_enrollment_bitarray
    periods,
    enrollment_bitarray,  \* its return value, None before
    k12_pivot,            \* argument of trim_non_enrollment_years
    trimmed               \* its return value, None before

k12_vars == << school_year, periods, enrollment_bitarray, k12_pivot, trimmed >>

VARIABLES
    k12_df,               \* k12_processor.py: argument of preprocess_data
    k12_pre,              \* its return value, None before
    bitarrays,            \* return value of generate_enrollment_bitarrays, None before
    wage_df,              \* wage_processor.py: argument of prepare
    wage_block,           \* its return value, None before
    optional_cols,        \* worksheet_builder.py: optional_cols, family -> column names
    frame,                \* worksheet_utils.py: worksheet_df of apply_column_order
    column_order,         \* its column_order argument
    result_df             \* its return value, None before

prep_vars == << k12_df, k12_pre, bitarrays, wage_df, wage_block, optional_cols,
                frame, column_order, result_df >>

\* Everything outside the consumer: consume() touches none of it.
builder_vars == << cluster_vars, codec_vars, smash_vars, k12_vars, prep_vars >>

vars == << consume_vars, builder_vars >>

(***************************************************************************)
(* Bounds of the model.                                                    *)
(***************************************************************************)
MaxRows == 2       \* rows of a worksheet of the GroupID and SSN families
MaxDnmRows == 3    \* rows of a worksheet of the do-not-merge family
MaxRuns == 2       \* consume() runs in one behaviour

(***************************************************************************)
(* Values.                                                                 *)
(***************************************************************************)
None == {}         \* Python None; a value x that is present is Some(x)
Some(x) == {x}
Get(m) == CHOOSE x \in m : TRUE
NULL == "NaN"      \* an empty text cell of the worksheet (pandas NaN / isnull)
BLANK == 0         \* an empty numeric cell: like 0 it equals neither 1 nor 2

EntityTypes == {"person", "organization"}

Range(s) == {s[i] : i \in DOMAIN s}

(***************************************************************************)
(* entity.py: the classification tables.  A table without a uniqueness     *)
(* constraint other than its autoincrement RecordID is a bag of rows; a    *)
(* table with one is a set of rows.  CreateDT is not modelled.             *)
(***************************************************************************)
whitelist_identity(kind) == kind \o "_whitelist"
blacklist_identity(kind) == kind \o "_blacklist"
unmerge_identity(kind) == kind \o "_unmerge"

WhiteList(p20id, job, kind) ==
    [P20ID |-> p20id, JobID |-> job, EntityType |-> whitelist_identity(kind)]
BlackList(t1, t2, job, kind) ==
    [TokenID_1 |-> t1, TokenID_2 |-> t2, JobID |-> job,
     EntityType |-> blacklist_identity(kind)]
InvalidSSN(token, ssn, job) == [TokenID |-> token, SSN |-> ssn, JobID |-> job]
Unmerge(token, group, job, kind) ==
    [TokenID |-> token, GroupID |-> group, JobID |-> job,
     entity_type |-> unmerge_identity(kind)]

\* WhiteList.P20ID is the primary key of the single WhiteList table.
WhiteListKeys(t) == {r.P20ID : r \in t}
\* Unmerge.TokenID is unique over the single Unmerge table.
UnmergeKeys(t) == {r.TokenID : r \in t}

EmptyDb ==
    [whitelist |-> {}, blacklist |-> EmptyBag, invalidssn |-> EmptyBag, unmerge |-> {}]

\* Rows of a bag that satisfy Keep, with their multiplicities.
BagFilter(B, Keep(_)) == [e \in {x \in DOMAIN B : Keep(x)} |-> B[e]]

RECURSIVE SeqToBag(_)
SeqToBag(s) == IF s = <<>> THEN EmptyBag ELSE SetToBag({Head(s)}) (+) SeqToBag(Tail(s))

(***************************************************************************)
(* pandas helpers used by the consumer.                                    *)
(***************************************************************************)
isnull(v) == v = NULL
notnull(v) == v # NULL

Column(df, col) == [i \in 1..Len(df) |-> df[i][col]]

\* Series.drop_duplicates(): the first occurrence of every value, in order.
RECURSIVE drop_duplicates(_)
drop_duplicates(s) ==
    IF s = <<>> THEN <<>>
    ELSE <<Head(s)>> \o drop_duplicates(SelectSeq(Tail(s), LAMBDA v : v # Head(s)))

\* DataFrame.drop_duplicates(subset=[col]): the first row of every value of col.
RECURSIVE drop_duplicates_subset(_, _)
drop_duplicates_subset(df, col) ==
    IF df = <<>> THEN <<>>
    ELSE <<Head(df)>> \o
         drop_duplicates_subset(SelectSeq(Tail(df), LAMBDA r : r[col] # Head(df)[col]), col)

\* The keys of df.groupby(col), ascending.
RECURSIVE SortedSeq(_)
SortedSeq(S) ==
    IF S = {} THEN <<>>
    ELSE LET m == CHOOSE x \in S : \A y \in S : x <= y
         IN  <<m>> \o SortedSeq(S \ {m})

RECURSIVE Flatten(_)
Flatten(ss) == IF ss = <<>> THEN <<>> ELSE Head(ss) \o Flatten(Tail(ss))

(***************************************************************************)
(* ssn_util.py                                                             *)
(***************************************************************************)
SSNLen == 9
\* str.isdigit on the characters of the worksheets modelled here (ASCII only).
Digits == {"0", "1", "2", "3", "4", "5", "6", "7", "8", "9"}

\* str(ssn): a string is a sequence of characters; an empty SSN cell (NaN, here
\* the empty sequence: read_excel yields no empty string) prints as nan.
str(v) == IF v = <<>> THEN <<"n", "a", "n">> ELSE v

ssn_digits(ssn) == SelectSeq(str(ssn), LAMBDA c : c \in Digits)

clean_ssn_raises_never(ssn) == FALSE
\* clean_ssn raises ValueError unless exactly nine digits remain.
clean_ssn_raises(ssn) == Len(ssn_digits(ssn)) # SSNLen

clean_ssn(ssn) == ssn_digits(ssn)

(***************************************************************************)
(* worksheet_consume.py: what each step of Phase 2 computes from the       *)
(* loaded worksheet.  int() and str() of the cells are the identity on the *)
(* integer ids and text labels a worksheet holds.                          *)
(***************************************************************************)
required_columns == {"P20ID", "TokenID", "GroupID", "DoNotMerge", "InvalidSSN", "SSN"}

missing_columns_unchecked(ws) == {}
missing_columns(ws) == required_columns \ ws.columns

\* truncate_tables: the Unmerge rows that survive the delete.
truncated_all_kinds(unmerge, kind) == {}
truncated(unmerge, kind) == {r \in unmerge : r.entity_type # unmerge_identity(kind)}

\* bulk_save_objects of a list of rows into a table with a unique key: the
\* INSERT is refused when a key is already present or occurs twice in the list.
KeyConflict(keys, present) ==
    \/ \E i \in DOMAIN keys : keys[i] \in present
    \/ \E i, j \in DOMAIN keys : i # j /\ keys[i] = keys[j]

\* process_whitelist
no_group(df) == SelectSeq(df, LAMBDA r : isnull(r.GroupID))

whitelist_p20ids(df) == drop_duplicates(Column(no_group(df), "P20ID"))

whitelist_objs(df, job, kind) ==
    LET ids == whitelist_p20ids(df)
    IN  [i \in 1..Len(ids) |-> WhiteList(ids[i], job, kind)]

whitelist_tokenids(df) == Range(drop_duplicates(Column(no_group(df), "TokenID")))

blacklist_after_delete(blacklist, tokenids) ==
    BagFilter(blacklist,
              LAMBDA r : ~(r.TokenID_1 \in tokenids \/ r.TokenID_2 \in tokenids))

\* process_do_not_merge_pairs
dnm_pairs_of(group) ==
    LET dnm1 == SelectSeq(group, LAMBDA r : r.DoNotMerge = 1)
        dnm2 == SelectSeq(group, LAMBDA r : r.DoNotMerge = 2)
    IN  IF Len(dnm1) = 1 /\ Len(dnm2) >= 1
        THEN [i \in 1..Len(dnm2) |-> <<dnm1[1].TokenID, dnm2[i].TokenID>>]
        ELSE <<>>

dnm_pairs(df) ==
    LET keys == SortedSeq({df[i].P20ID : i \in DOMAIN df})
    IN  Flatten([k \in 1..Len(keys) |->
                    dnm_pairs_of(SelectSeq(df, LAMBDA r : r.P20ID = keys[k]))])

listed_pairs(pairs) == SeqToBag(pairs)
\* list(set(pairs)): every pair once (the order of the list is not modelled).
unique_pairs(pairs) == SetToBag(Range(pairs))

blacklist_objs(df, job, kind) ==
    LET up == unique_pairs(dnm_pairs(df))
    IN  [o \in {BlackList(p[1], p[2], job, kind) : p \in DOMAIN up} |->
            up[<<o.TokenID_1, o.TokenID_2>>]]

\* process_invalid_ssn (uses_ssn is True for both entity types)
invalid_objs(df, job) ==
    LET invalid == SelectSeq(df, LAMBDA r : r.InvalidSSN = 1)
        kept == SelectSeq(invalid, LAMBDA r : ~clean_ssn_raises(r.SSN))
    IN  [i \in 1..Len(kept) |-> InvalidSSN(kept[i].TokenID, clean_ssn(kept[i].SSN), job)]

\* load_unmerge_records
not_null_group(df) == SelectSeq(df, LAMBDA r : notnull(r.GroupID))

Reverse(s) == [i \in 1..Len(s) |-> s[Len(s) + 1 - i]]

unique_records_keep_last(df) == Reverse(drop_duplicates_subset(Reverse(df), "TokenID"))
\* drop_duplicates(subset=["TokenID"]): the first row of every TokenID is kept.
unique_records(df) == drop_duplicates_subset(df, "TokenID")

unmerge_objs(df, job, kind) ==
    LET recs == unique_records(not_null_group(df))
    IN  [i \in 1..Len(recs) |-> Unmerge(recs[i].TokenID, recs[i].GroupID, job, kind)]

\* save_processing_summary: the content of the summary sheet.
summary_data(df, job, kind) ==
    [EntityType |-> kind, JobID |-> job, TotalRecords |-> Len(df),
     WithGroupID |-> Len(not_null_group(df)),
     WithoutGroupID |-> Len(no_group(df)),
     InvalidSSNRecords |-> Len(SelectSeq(df, LAMBDA r : r.InvalidSSN = 1))]

(***************************************************************************)
(* consume(): the exception handlers of its two try blocks.                *)
(***************************************************************************)
Phase1ExceptSwallowed(e) ==
    /\ tx' = db
    /\ err' = e
    /\ pc' = "load"
    /\ raisedIn' = 1
    /\ raisedAt' = pc
    /\ UNCHANGED << db, worksheet, worksheet_df, entity_type, job_id, summary,
                    dbStart, dbPhase1, prev >>

\* except of Step 1: session.rollback(); raise
Phase1Except(e) ==
    /\ tx' = db
    /\ err' = e
    /\ pc' = "failed"
    /\ raisedIn' = 1
    /\ raisedAt' = pc
    /\ UNCHANGED << db, worksheet, worksheet_df, entity_type, job_id, summary,
                    dbStart, dbPhase1, prev >>

Phase2ExceptCommits(e) ==
    /\ db' = tx
    /\ tx' = tx
    /\ err' = e
    /\ pc' = "failed"
    /\ raisedIn' = 2
    /\ raisedAt' = pc
    /\ UNCHANGED << worksheet, entity_type, job_id, dbStart, dbPhase1, prev >>

\* except of Step 2: session.rollback(); raise
Phase2Except(e) ==
    /\ db' = db
    /\ tx' = db
    /\ err' = e
    /\ pc' = "failed"
    /\ raisedIn' = 2
    /\ raisedAt' = pc
    /\ UNCHANGED << worksheet, entity_type, job_id, dbStart, dbPhase1, prev >>

\* A statement of Step 2 that returns normally.
Phase2Step(next, newtx) ==
    /\ tx' = newtx
    /\ pc' = next
    /\ UNCHANGED << db, worksheet, worksheet_df, entity_type, job_id, err, summary,
                    raisedIn, raisedAt, dbStart, dbPhase1, prev >>

(***************************************************************************)
(* The caller (run_worksheet_consume.py): a new job id from the sequence,  *)
(* a new session, a new consumer for the chosen entity type.               *)
(***************************************************************************)
StartRun ==
    /\ pc \in {"idle", "done", "failed"}
    /\ UNCHANGED builder_vars
    /\ job_id < MaxRuns
    /\ \E kind \in EntityTypes : entity_type' = kind
    /\ job_id' = job_id + 1
    /\ worksheet_df' = None
    /\ pc' = "truncate"
    /\ err' = "none"
    /\ raisedIn' = 0
    /\ raisedAt' = "none"
    /\ dbStart' = db
    /\ dbPhase1' = None
    /\ prev' = IF pc = "idle" THEN None
               ELSE Some([entity_type |-> entity_type, ok |-> pc = "done", db |-> db])
    /\ UNCHANGED << db, tx, worksheet, summary >>

(***************************************************************************)
(* consume(), Step 1.                                                      *)
(***************************************************************************)
truncate_tables ==
    /\ pc = "truncate"
    /\ UNCHANGED builder_vars
    /\ \/ /\ tx' = [tx EXCEPT !.unmerge = truncated(@, entity_type)]
          /\ pc' = "commit1"
          /\ UNCHANGED << db, worksheet, worksheet_df, entity_type, job_id, err,
                          summary, raisedIn, raisedAt, dbStart, dbPhase1, prev >>
       \/ Phase1Except("DataAccessError")

commit_phase1 ==
    /\ pc = "commit1"
    /\ UNCHANGED builder_vars
    /\ \/ /\ db' = tx
          /\ dbPhase1' = Some(tx)
          /\ pc' = "load"
          /\ UNCHANGED << tx, worksheet, worksheet_df, entity_type, job_id, err,
                          summary, raisedIn, raisedAt, dbStart, prev >>
       \/ Phase1Except("DataAccessError")

(***************************************************************************)
(* consume(), Step 2.                                                      *)
(***************************************************************************)
load_worksheet ==
    /\ pc = "load"
    /\ UNCHANGED builder_vars
    /\ \/ \* read_excel fails
          /\ Phase2Except("OSError")
          /\ UNCHANGED << worksheet_df, summary >>
       \/ \* self.worksheet_df is assigned before the columns are validated
          /\ worksheet_df' = Some(worksheet.rows)
          /\ IF missing_columns(worksheet) # {}
             THEN Phase2Except("ValueError") /\ UNCHANGED summary
             ELSE /\ pc' = "whitelist"
                  /\ UNCHANGED << db, tx, worksheet, entity_type, job_id, err, summary,
                                  raisedIn, raisedAt, dbStart, dbPhase1, prev >>

process_whitelist ==
    /\ pc = "whitelist"
    /\ UNCHANGED builder_vars
    /\ LET df == Get(worksheet_df)
           objs == whitelist_objs(df, job_id, entity_type)
           tokenids == whitelist_tokenids(df)
       IN  \/ /\ objs # <<>> \/ tokenids # {}
              /\ Phase2Except("DataAccessError")
              /\ UNCHANGED << worksheet_df, summary >>
           \/ IF KeyConflict(Column(objs, "P20ID"), WhiteListKeys(tx.whitelist))
              THEN Phase2Except("IntegrityError") /\ UNCHANGED << worksheet_df, summary >>
              ELSE Phase2Step("dnm",
                     [tx EXCEPT !.whitelist = @ \cup Range(objs),
                                !.blacklist = blacklist_after_delete(@, tokenids)])

process_do_not_merge_pairs ==
    /\ pc = "dnm"
    /\ UNCHANGED builder_vars
    /\ LET objs == blacklist_objs(Get(worksheet_df), job_id, entity_type)
       IN  \/ /\ objs # EmptyBag
              /\ Phase2Except("DataAccessError")
              /\ UNCHANGED << worksheet_df, summary >>
           \/ Phase2Step("ssn", [tx EXCEPT !.blacklist = @ (+) objs])

process_invalid_ssn ==
    /\ pc = "ssn"
    /\ UNCHANGED builder_vars
    /\ LET objs == invalid_objs(Get(worksheet_df), job_id)
       IN  \/ /\ objs # <<>>
              /\ Phase2Except("DataAccessError")
              /\ UNCHANGED << worksheet_df, summary >>
           \/ Phase2Step("unmerge", [tx EXCEPT !.invalidssn = @ (+) SeqToBag(objs)])

load_unmerge_records ==
    /\ pc = "unmerge"
    /\ UNCHANGED builder_vars
    /\ LET objs == unmerge_objs(Get(worksheet_df), job_id, entity_type)
       IN  \/ /\ objs # <<>>
              /\ Phase2Except("DataAccessError")
              /\ UNCHANGED << worksheet_df, summary >>
           \/ IF KeyConflict(Column(objs, "TokenID"), UnmergeKeys(tx.unmerge))
              THEN Phase2Except("IntegrityError") /\ UNCHANGED << worksheet_df, summary >>
              ELSE Phase2Step("summary", [tx EXCEPT !.unmerge = @ \cup Range(objs)])

save_processing_summary ==
    /\ pc = "summary"
    /\ UNCHANGED builder_vars
    /\ \/ \* to_excel fails
          /\ Phase2Except("OSError")
          /\ UNCHANGED << worksheet_df, summary >>
       \/ /\ summary' = Some(summary_data(Get(worksheet_df), job_id, entity_type))
          /\ pc' = "commit2"
          /\ UNCHANGED << db, tx, worksheet, worksheet_df, entity_type, job_id, err,
                          raisedIn, raisedAt, dbStart, dbPhase1, prev >>

commit_phase2 ==
    /\ pc = "commit2"
    /\ UNCHANGED builder_vars
    /\ \/ /\ Phase2Except("DataAccessError")
          /\ UNCHANGED << worksheet_df, summary >>
       \/ /\ db' = tx
          /\ pc' = "done"
          /\ UNCHANGED << tx, worksheet, worksheet_df, entity_type, job_id, err,
                          summary, raisedIn, raisedAt, dbStart, dbPhase1, prev >>

Next ==
    \/ StartRun
    \/ truncate_tables
    \/ commit_phase1
    \/ load_worksheet
    \/ process_whitelist
    \/ process_do_not_merge_pairs
    \/ process_invalid_ssn
    \/ load_unmerge_records
    \/ save_processing_summary
    \/ commit_phase2

(***************************************************************************)
(* Initial states: a database left by earlier jobs, and a reviewed         *)
(* worksheet.  A Token is bound to one Identity when the worksheet is      *)
(* built (worksheet_builder.py, tokenid_to_p20id), so the P20ID and        *)
(* TokenID cells of a row come in the pairs of TokenOfIdentity.            *)
(***************************************************************************)
TokenOfIdentity == {<<1, 1>>, <<1, 2>>, <<2, 3>>}
GroupLabels == {"1", "3"}

SSN_DASHED == <<"1", "2", "3", "-", "4", "5", "-", "6", "7", "8", "9">>
SSN_PLAIN == <<"9", "8", "7", "6", "5", "4", "3", "2", "1">>
SSN_SHORT == <<"1", "2", "3", "4", "5">>
SSN_LONG == <<"1", "2", "3", "4", "5", "6", "7", "8", "9", "0">>
SSN_NAN == <<>>

Row(pt, group, dnm, flag, ssn) ==
    [P20ID |-> pt[1], TokenID |-> pt[2], GroupID |-> group, DoNotMerge |-> dnm,
     InvalidSSN |-> flag, SSN |-> ssn]

\* Rows whose GroupID cell varies, whose do-not-merge code varies (the reviewer
\* left GroupID empty), and whose invalid-SSN flag and SSN vary.
GroupRows == {Row(pt, g, BLANK, BLANK, SSN_NAN) : pt \in TokenOfIdentity,
                                                  g \in GroupLabels \cup {NULL}}
DnmRows == {Row(pt, NULL, d, BLANK, SSN_NAN) : pt \in TokenOfIdentity, d \in {BLANK, 1, 2}}
SsnRows ==
    {Row(pt, "1", BLANK, BLANK, SSN_PLAIN) : pt \in {<<1, 1>>, <<1, 2>>}} \cup
    {Row(pt, "1", BLANK, 1, s) : pt \in {<<1, 1>>, <<1, 2>>},
                                 s \in {SSN_DASHED, SSN_SHORT, SSN_LONG, SSN_NAN}}

SeqsUpTo(S, n) == UNION {[1..k -> S] : k \in 0..n}

Worksheets ==
    {[columns |-> required_columns, rows |-> rows] :
        rows \in SeqsUpTo(GroupRows, MaxRows) \cup SeqsUpTo(SsnRows, MaxRows)
                 \cup SeqsUpTo(DnmRows, MaxRows)}
    \cup
    {[columns |-> required_columns \ {c}, rows |-> rows] :
        c \in required_columns, rows \in {<<>>, <<Row(<<1, 1>>, "1", 1, 1, SSN_PLAIN)>>}}

\* Complete worksheets of the do-not-merge family, with more rows.
DnmWorksheets ==
    {[columns |-> required_columns, rows |-> rows] : rows \in SeqsUpTo(DnmRows, MaxDnmRows)}

\* Rows written by an earlier job (JobID 0) of either entity type.
PriorDb ==
    [whitelist |-> {WhiteList(2, 0, "person")},
     blacklist |-> SetToBag({BlackList(1, 3, 0, "person")}),
     invalidssn |-> SetToBag({InvalidSSN(1, SSN_PLAIN, 0)}),
     unmerge |-> {Unmerge(1, "1", 0, "person"), Unmerge(3, "1", 0, "organization")}]

\* No build is running and no function of the builder has been called.
ClusterIdle ==
    /\ children = <<>>
    /\ token_to_smash = <<>>
    /\ sheet = <<>>
    /\ token_smashids = <<>>
    /\ group_id_counter = 1
    /\ smashid_to_tokenids = <<>>
    /\ unassigned_smashids = {}
    /\ result = <<>>
    /\ rounds = <<>>
    /\ gpc = "idle"

CodecIdle ==
    /\ bitarray = <<>>
    /\ enrolled_char = 35
    /\ not_enrolled_char = 95
    /\ enrollment_string = None
    /\ decoded = None

SmashIdle ==
    /\ name = <<>>
    /\ smash_results = <<>>

K12Idle ==
    /\ school_year = 0
    /\ periods = <<>>
    /\ enrollment_bitarray = None
    /\ k12_pivot = <<>>
    /\ trimmed = None

PrepIdle ==
    /\ k12_df = <<>>
    /\ k12_pre = None
    /\ bitarrays = None
    /\ wage_df = <<>>
    /\ wage_block = None
    /\ optional_cols = <<>>
    /\ frame = [columns |-> <<>>, rows |-> <<>>]
    /\ column_order = <<>>
    /\ result_df = None

ConsumeInit(dbs, sheets) ==
    /\ db \in dbs
    /\ tx = db
    /\ worksheet \in sheets
    /\ worksheet_df = None
    /\ entity_type = "none"
    /\ job_id = 0
    /\ pc = "idle"
    /\ err = "none"
    /\ summary = None
    /\ raisedIn = 0
    /\ raisedAt = "none"
    /\ dbStart = db
    /\ dbPhase1 = None
    /\ prev = None

InitWith(dbs, sheets) ==
    /\ ConsumeInit(dbs, sheets)
    /\ ClusterIdle
    /\ CodecIdle
    /\ SmashIdle
    /\ K12Idle
    /\ PrepIdle

Init == InitWith({EmptyDb, PriorDb}, Worksheets)

Spec == Init /\ [][Next]_vars

\* The same program on the larger worksheets of the do-not-merge family.
InitDnm == InitWith({EmptyDb}, DnmWorksheets)

SpecDnm == InitDnm /\ [][Next]_vars

(***************************************************************************)
(* Vocabulary of the claims.                                               *)
(***************************************************************************)
Rows == worksheet.rows
RowIds == DOMAIN Rows

Phase2Positions == {"whitelist", "dnm", "ssn", "unmerge", "summary", "commit2"}

\* Exceptions raised by the storage or the file system, not by the data.
EnvironmentErrors == {"DataAccessError", "OSError"}

\* Rows of a table that the current run wrote.
WrittenByRun(rows) == {r \in rows : r.JobID = job_id}

\* The classification entries of a database, job id left out.
Classification(d) ==
    [whitelist |-> {<<r.P20ID, r.EntityType>> : r \in d.whitelist},
     blacklist |-> {<<r.TokenID_1, r.TokenID_2, r.EntityType>> : r \in BagToSet(d.blacklist)},
     invalidssn |-> {<<r.TokenID, r.SSN>> : r \in BagToSet(d.invalidssn)},
     unmerge |-> {<<r.TokenID, r.GroupID, r.entity_type>> : r \in d.unmerge}]

UnmergeOfKind(unmerge, kind) == {r \in unmerge : r.entity_type = unmerge_identity(kind)}

(***************************************************************************)
(* C1.  After a run that completed, no Token of an Identity whitelisted by *)
(* that run occurs as TokenID_1 or TokenID_2 of a blacklist pair.          *)
(***************************************************************************)
TokensOfIdentity(p) == {Rows[i].TokenID : i \in {j \in RowIds : Rows[j].P20ID = p}}

C1_NoWhitelistedTokenBlacklisted ==
    pc = "done" =>
        \A w \in WrittenByRun(db.whitelist) :
            \A b \in BagToSet(db.blacklist) :
                /\ b.TokenID_1 \notin TokensOfIdentity(w.P20ID)
                /\ b.TokenID_2 \notin TokensOfIdentity(w.P20ID)

(***************************************************************************)
(* C2.  A second run for the same entity type on the same worksheet, right *)
(* after a run that completed, completes too (unless the storage or the    *)
(* file system fails) and leaves the same classification entries.          *)
(***************************************************************************)
C2_RerunIdempotent ==
    ( /\ pc \in {"done", "failed"}
      /\ prev # None
      /\ Get(prev).ok
      /\ Get(prev).entity_type = entity_type
      /\ err \notin EnvironmentErrors )
    => /\ pc = "done"
       /\ Classification(db) = Classification(Get(prev).db)

C4_Phase1FailureNoPhase2 ==
    raisedIn = 1 =>
        /\ pc = "failed"
        /\ err # "none"
        /\ raisedAt \in {"truncate", "commit1"}
        /\ worksheet_df = None
        /\ db = dbStart
        /\ tx = db
        /\ \A f \in summary : f.JobID # job_id

C4_Witness ==
    /\ raisedIn = 1
    /\ raisedAt = "commit1"
    /\ UnmergeOfKind(dbStart.unmerge, entity_type) # {}

(***************************************************************************)
(* C5.  When a step of Phase 2 raises, every write and delete of Phase 2   *)
(* is rolled back and the exception leaves consume: the stored tables are  *)
(* exactly those committed by Phase 1.  Until the final commit Phase 2     *)
(* stores nothing.                                                         *)
(***************************************************************************)
C5_Phase2FailureRollsBack ==
    /\ raisedIn = 2 =>
          /\ pc = "failed"
          /\ err # "none"
          /\ raisedAt \in Phase2Positions \cup {"load"}
          /\ dbPhase1 = Some(db)
          /\ tx = db
    /\ pc \in Phase2Positions => dbPhase1 = Some(db)

C5_Witness ==
    /\ raisedIn = 2
    /\ raisedAt = "commit2"
    /\ whitelist_objs(Rows, job_id, entity_type) # <<>>
    /\ unmerge_objs(Rows, job_id, entity_type) # <<>>
    /\ db.whitelist = {}

(***************************************************************************)
(* C6.  As claimed: a worksheet that lacks a required column makes consume *)
(* abort with a validation error before any change to the tables.          *)
(***************************************************************************)
C6_ValidationBeforeAnyMutation ==
    (pc = "failed" /\ err = "ValueError") => db = dbStart

(***************************************************************************)
(* C6, amended.  A worksheet that lacks a required column makes consume    *)
(* abort with a validation error as soon as it is read, before any change  *)
(* of Phase 2: the tables are then as Phase 1 committed them, that is as   *)
(* before the run except for the deleted unmerge rows of kind K.           *)
(***************************************************************************)
LacksRequiredColumn == \E c \in required_columns : c \notin worksheet.columns

C6_ValidationAfterPhase1 ==
    /\ (LacksRequiredColumn /\ worksheet_df # None) =>
          /\ pc = "failed"
          /\ err = "ValueError"
          /\ raisedAt = "load"
          /\ dbPhase1 = Some(db)
          /\ tx = db
          /\ db = [dbStart EXCEPT
                      !.unmerge = @ \ UnmergeOfKind(dbStart.unmerge, entity_type)]
    /\ (pc = "failed" /\ err = "ValueError") => LacksRequiredColumn

C6_Witness ==
    /\ pc = "failed"
    /\ err = "ValueError"
    /\ db # dbStart

(***************************************************************************)
(* C7.  As claimed: the run writes an Identity to the whitelist if and     *)
(* only if every worksheet row of that Identity has an empty GroupID.      *)
(***************************************************************************)
AllRowsNull(p) == \A i \in RowIds : Rows[i].P20ID = p => Rows[i].GroupID = NULL

C7_WhitelistIffAllRowsNull ==
    pc = "done" =>
        \A p \in {Rows[i].P20ID : i \in RowIds} :
            (\E w \in WrittenByRun(db.whitelist) : w.P20ID = p) <=> AllRowsNull(p)

(***************************************************************************)
(* C8.  Right after the do-not-merge step the blacklist rows written by    *)
(* the run are, once each, the pairs (code-1 Token, code-2 Token) of the   *)
(* Identities that have exactly one row with code 1 and at least one row   *)
(* with code 2; the other Identities give no pair, and the step raises     *)
(* only if the storage refuses the insert of a pair.                       *)
(***************************************************************************)
Code1Rows(p) == {i \in RowIds : Rows[i].P20ID = p /\ Rows[i].DoNotMerge = 1}
Code2Rows(p) == {i \in RowIds : Rows[i].P20ID = p /\ Rows[i].DoNotMerge = 2}

ExpectedPairs ==
    {<<Rows[i].TokenID, Rows[j].TokenID>> :
        <<i, j>> \in {ij \in RowIds \X RowIds :
                        /\ Rows[ij[1]].P20ID = Rows[ij[2]].P20ID
                        /\ Code1Rows(Rows[ij[1]].P20ID) = {ij[1]}
                        /\ ij[2] \in Code2Rows(Rows[ij[1]].P20ID)}}

C8_DoNotMergePairs ==
    /\ pc = "ssn" =>
          BagFilter(tx.blacklist, LAMBDA r : r.JobID = job_id)
            = SetToBag({BlackList(p[1], p[2], job_id, entity_type) : p \in ExpectedPairs})
    /\ raisedAt = "dnm" => err = "DataAccessError" /\ ExpectedPairs # {}

C8_Witness ==
    /\ pc = "ssn"
    /\ \E p \in {1, 2} : Cardinality(Code1Rows(p)) = 1 /\ Cardinality(Code2Rows(p)) = 2
    /\ Cardinality(ExpectedPairs) = 1

C8_WitnessNoPair ==
    /\ pc = "ssn"
    /\ Cardinality(Code1Rows(1)) = 2
    /\ Code2Rows(1) # {}

(***************************************************************************)
(* C9.  After a run for kind K that completed, the unmerge rows of kind K  *)
(* are one row per Token that has a worksheet row with a GroupID, with the *)
(* GroupID of the first such row and the job id of the run; a Token whose  *)
(* rows all have an empty GroupID has no row.                              *)
(***************************************************************************)
GroupedRows(t) == {i \in RowIds : Rows[i].TokenID = t /\ Rows[i].GroupID # NULL}
FirstRow(S) == CHOOSE i \in S : \A j \in S : i <= j

C9_UnmergeEntries ==
    pc = "done" =>
        UnmergeOfKind(db.unmerge, entity_type) =
            {Unmerge(t, Rows[FirstRow(GroupedRows(t))].GroupID, job_id, entity_type) :
                t \in {u \in {Rows[i].TokenID : i \in RowIds} : GroupedRows(u) # {}}}

C9_Witness ==
    /\ pc = "done"
    /\ UnmergeOfKind(dbStart.unmerge, entity_type) # {}
    /\ \E t \in {Rows[i].TokenID : i \in RowIds} :
          \E i, j \in GroupedRows(t) : Rows[i].GroupID # Rows[j].GroupID

C9_WitnessNoEntry ==
    /\ pc = "done"
    /\ \E i, j \in RowIds : Rows[i].GroupID = NULL /\ Rows[j].GroupID # NULL
                            /\ Rows[i].TokenID # Rows[j].TokenID

(***************************************************************************)
(* C10.  Every invalid-SSN row written by a run has an SSN of exactly nine *)
(* digits, the digits of the SSN cell of a flagged worksheet row; a        *)
(* flagged row whose SSN cell has another number of digits is left out and *)
(* does not abort the run: the other flagged rows are written and the run  *)
(* goes on to the commit.                                                  *)
(***************************************************************************)
IsNineDigits(ssn) == Len(ssn) = 9 /\ \A k \in 1..Len(ssn) : ssn[k] \in Digits

Flagged == {i \in RowIds : Rows[i].InvalidSSN = 1}
Normalizable == {i \in Flagged : Len(ssn_digits(Rows[i].SSN)) = 9}

ExpectedInvalidSSN ==
    LET objs == {InvalidSSN(Rows[i].TokenID, ssn_digits(Rows[i].SSN), job_id) :
                    i \in Normalizable}
    IN  [o \in objs |->
            Cardinality({i \in Normalizable :
                           /\ Rows[i].TokenID = o.TokenID
                           /\ ssn_digits(Rows[i].SSN) = o.SSN})]

C10_InvalidSSNEntries ==
    /\ \A r \in BagToSet(tx.invalidssn) \cup BagToSet(db.invalidssn) : IsNineDigits(r.SSN)
    /\ pc \in {"unmerge", "summary", "commit2"} =>
          BagFilter(tx.invalidssn, LAMBDA r : r.JobID = job_id) = ExpectedInvalidSSN
    /\ pc = "done" =>
          BagFilter(db.invalidssn, LAMBDA r : r.JobID = job_id) = ExpectedInvalidSSN
    /\ raisedAt = "ssn" => err = "DataAccessError" /\ Normalizable # {}

C10_Witness ==
    /\ pc = "done"
    /\ Flagged \ Normalizable # {}
    /\ Normalizable # {}
    /\ WrittenByRun(db.unmerge) # {}

(***************************************************************************)
(* Strings of the builder.  A Python str is modelled as the sequence of    *)
(* its Unicode code points ("AB" is <<65, 66>>), so that comparing,        *)
(* splitting, upper-casing and filtering act on characters as in Python.   *)
(***************************************************************************)
\* a < b for two str: lexicographic by code point, a proper prefix is smaller.
str_lt(a, b) ==
    \E i \in 1..Len(b) :
        /\ \A j \in 1..(i - 1) : j <= Len(a) /\ a[j] = b[j]
        /\ (i > Len(a) \/ a[i] < b[i])

(***************************************************************************)
(* groupid_assigner.py: GroupIdAssigner.assign_group_ids, one action per   *)
(* block of the method and one per iteration of its while loop.            *)
(***************************************************************************)
\* lines 41-43: the TokenIDs of every SmashID, in input order.
tokenids_of(pairs, smash) ==
    LET sel == SelectSeq(pairs, LAMBDA p : p[2] = smash)
    IN  [i \in 1..Len(sel) |-> sel[i][1]]

build_smashid_to_tokenids(pairs) ==
    [smash \in {pairs[i][2] : i \in DOMAIN pairs} |-> tokenids_of(pairs, smash)]

\* line 52: sorted(unassigned_smashids, key=lambda s: (-len(s), s))[0]
key_lt(s, t) == Len(s) > Len(t) \/ (Len(s) = Len(t) /\ str_lt(s, t))
longest_of_last_in_order(unassigned) ==
    CHOOSE s \in unassigned :
        \A t \in unassigned \ {s} : Len(s) > Len(t) \/ (Len(s) = Len(t) /\ str_lt(t, s))
longest_of(unassigned) == CHOOSE s \in unassigned : \A t \in unassigned \ {s} : key_lt(s, t)

next_group_id_by_one(counter) == counter + 1
\* line 54: self.group_id_counter += 2
next_group_id(counter) == counter + 2

assigned_to_head(res, tokenids, gid) ==
    [t \in DOMAIN res \cup {Head(tokenids)} |-> IF t = Head(tokenids) THEN gid ELSE res[t]]
assigned_to_unless_present(res, tokenids, gid) ==
    [t \in DOMAIN res \cup Range(tokenids) |-> IF t \in DOMAIN res THEN res[t] ELSE gid]
\* lines 58-59, 75-76, 86-87: for token_id in smashid_to_tokenids[smash]: result[token_id] = gid
assigned_to(res, tokenids, gid) ==
    [t \in DOMAIN res \cup Range(tokenids) |-> IF t \in Range(tokenids) THEN gid ELSE res[t]]

\* lines 71-77: a SmashID of the primary's length joins when it equals the primary.
joins_exact(smash, longest) == Len(smash) = Len(longest) /\ smash = longest

joins_subset_nonempty(smash, longest) ==
    Len(smash) > 0 /\ Len(smash) < Len(longest) /\ Range(smash) \subseteq Range(longest)
joins_subset_any_length(smash, longest) == Range(smash) \subseteq Range(longest)
\* lines 82-85: a shorter SmashID joins when its characters are a subset.
joins_subset(smash, longest) ==
    Len(smash) < Len(longest) /\ Range(smash) \subseteq Range(longest)

joined_without_primary(unassigned, longest) ==
    {smash \in unassigned \ {longest} :
        joins_exact(smash, longest) \/ joins_subset(smash, longest)}
\* The SmashIDs that are given the GroupID of the round of primary `longest`.
joined_in_round(unassigned, longest) ==
    {longest} \cup {smash \in unassigned \ {longest} :
                        joins_exact(smash, longest) \/ joins_subset(smash, longest)}

\* result after the TokenIDs of all SmashIDs of `joined` were given gid.
RECURSIVE assign_all(_, _, _, _)
assign_all(res, by_smash, joined, gid) ==
    IF joined = {} THEN res
    ELSE LET smash == CHOOSE x \in joined : TRUE
         IN  assign_all(assigned_to(res, by_smash[smash], gid), by_smash,
                        joined \ {smash}, gid)

\* lines 40-47
assign_group_ids ==
    /\ gpc = "assign"
    /\ smashid_to_tokenids' = build_smashid_to_tokenids(token_smashids)
    /\ result' = <<>>
    /\ unassigned_smashids' = {token_smashids[i][2] : i \in DOMAIN token_smashids}
    /\ gpc' = "while"
    /\ UNCHANGED << children, token_to_smash, sheet, token_smashids, group_id_counter,
                    rounds >>
    /\ UNCHANGED << consume_vars, prep_vars, codec_vars, smash_vars, k12_vars >>

\* lines 50-88: one iteration of the while loop
assign_round ==
    /\ gpc = "while"
    /\ unassigned_smashids # {}
    /\ LET longest == longest_of(unassigned_smashids)
           current_group_id == group_id_counter
           joined == joined_in_round(unassigned_smashids, longest)
       IN  /\ group_id_counter' = next_group_id(group_id_counter)
           /\ result' = assign_all(result, smashid_to_tokenids, joined, current_group_id)
           /\ unassigned_smashids' = unassigned_smashids \ joined
           /\ rounds' = Append(rounds, [primary |-> longest, group_id |-> current_group_id,
                                        joined |-> joined])
    /\ UNCHANGED << children, token_to_smash, sheet, token_smashids, smashid_to_tokenids,
                    gpc >>
    /\ UNCHANGED << consume_vars, prep_vars, codec_vars, smash_vars, k12_vars >>

\* line 91: the loop is left, result is returned
assign_return ==
    /\ gpc = "while"
    /\ unassigned_smashids = {}
    /\ gpc' = "returned"
    /\ UNCHANGED << children, token_to_smash, sheet, token_smashids, group_id_counter,
                    smashid_to_tokenids, unassigned_smashids, result, rounds >>
    /\ UNCHANGED << consume_vars, prep_vars, codec_vars, smash_vars, k12_vars >>

NextAssign ==
    \/ assign_group_ids
    \/ assign_round
    \/ assign_return

(***************************************************************************)
(* Inputs of a direct call of assign_group_ids on a new GroupIdAssigner.   *)
(***************************************************************************)
MaxPairs == 3      \* (TokenID, SmashID) pairs of one call

AssignTokenIDs == 1..3
\* "", "AB", "BA", "ABC", "XYZ"
SmashIDs == {<<>>, <<65, 66>>, <<66, 65>>, <<65, 66, 67>>, <<88, 89, 90>>}
\* [(1, "ABC"), (2, "ABC"), (3, "AB"), (4, "XYZ")]
ExamplePairs == << <<1, <<65, 66, 67>> >>, <<2, <<65, 66, 67>> >>, <<3, <<65, 66>> >>,
                   <<4, <<88, 89, 90>> >> >>

AssignInputs == SeqsUpTo(AssignTokenIDs \X SmashIDs, MaxPairs) \cup {ExamplePairs}

NoConsume ==
    ConsumeInit({EmptyDb}, {[columns |-> required_columns, rows |-> <<>>]})

InitAssign ==
    /\ NoConsume
    /\ PrepIdle
    /\ CodecIdle
    /\ SmashIdle
    /\ K12Idle
    /\ children = <<>>
    /\ token_to_smash = <<>>
    /\ sheet = <<>>
    /\ token_smashids \in AssignInputs
    /\ group_id_counter = 1
    /\ smashid_to_tokenids = <<>>
    /\ unassigned_smashids = {}
    /\ result = <<>>
    /\ rounds = <<>>
    /\ gpc = "assign"

SpecAssign == InitAssign /\ [][NextAssign]_vars

(***************************************************************************)
(* Claims about assign_group_ids (SpecAssign).                             *)
(***************************************************************************)
InputTokenIDs == {token_smashids[i][1] : i \in DOMAIN token_smashids}
InputSmashIDs == {token_smashids[i][2] : i \in DOMAIN token_smashids}
SmashIDsOfToken(t) ==
    {token_smashids[i][2] : i \in {j \in DOMAIN token_smashids : token_smashids[j][1] = t}}
AllocatedGroupIDs == {rounds[k].group_id : k \in DOMAIN rounds}
\* The round in which a SmashID of the input was given its GroupID.
RoundOf(smash) == CHOOSE k \in DOMAIN rounds : smash \in rounds[k].joined

\* C11: the mapping returned by assign_group_ids has exactly the distinct
\* TokenIDs of the input as its keys and gives each of them exactly one of the
\* allocated GroupIDs, also for a TokenID that came with several SmashIDs; the
\* groups (the TokenIDs of one GroupID) therefore partition the input Tokens.
C11_ResultPartitionsTokens ==
    gpc = "returned" =>
        /\ DOMAIN result = InputTokenIDs
        /\ \A t \in InputTokenIDs :
               Cardinality({g \in AllocatedGroupIDs : result[t] = g}) = 1
        /\ UNION {{t \in DOMAIN result : result[t] = g} : g \in AllocatedGroupIDs}
               = InputTokenIDs

\* A TokenID whose SmashIDs were assigned in two different rounds, next to
\* another TokenID.
C11_Witness ==
    /\ gpc = "returned"
    /\ Cardinality(InputTokenIDs) >= 2
    /\ \E t \in InputTokenIDs : \E a, b \in SmashIDsOfToken(t) : RoundOf(a) # RoundOf(b)

\* C12: a SmashID that is given the GroupID of a round either is the primary
\* of the round or is strictly shorter than the primary with a character set
\* included in the primary's; a different SmashID of the primary's length
\* never joins.
C12_JoinsOnlyEqualOrShorterSubset ==
    \A k \in DOMAIN rounds : \A other \in rounds[k].joined :
        \/ other = rounds[k].primary
        \/ /\ Len(other) < Len(rounds[k].primary)
           /\ Range(other) \subseteq Range(rounds[k].primary)

\* A shorter SmashID joined a round, and two SmashIDs of one length and one
\* character set ("AB", "BA") ended in different rounds.
C12_Witness ==
    /\ gpc = "returned"
    /\ \E k \in DOMAIN rounds : Cardinality(rounds[k].joined) >= 2
    /\ \E a, b \in InputSmashIDs :
           /\ a # b
           /\ Len(a) = Len(b)
           /\ Range(a) = Range(b)
           /\ RoundOf(a) # RoundOf(b)

\* C13: on a new GroupIdAssigner the k-th GroupID allocated is 2k-1; for
\* [(1,"ABC"), (2,"ABC"), (3,"AB"), (4,"XYZ")] Tokens 1, 2, 3 map to 1 and
\* Token 4 maps to 3.
C13_GroupIDsOddFromOne ==
    /\ \A k \in DOMAIN rounds : rounds[k].group_id = 2 * k - 1
    /\ (gpc = "returned" /\ token_smashids = ExamplePairs) =>
           result = (1 :> 1 @@ 2 :> 1 @@ 3 :> 1 @@ 4 :> 3)

C13_Witness ==
    /\ gpc = "returned"
    /\ token_smashids = ExamplePairs
    /\ Len(rounds) = 2

EmptyTokenIDs == {t \in InputTokenIDs : <<>> \in SmashIDsOfToken(t)}

\* C14 as stated: when the input has an empty SmashID, every TokenID carrying
\* it ends with the GroupID of the first round and the empty SmashID is never
\* the primary of a round.
C14_EmptyAlwaysInFirstGroup ==
    (gpc = "returned" /\ EmptyTokenIDs # {}) =>
        /\ \A t \in EmptyTokenIDs : result[t] = rounds[1].group_id
        /\ \A k \in DOMAIN rounds : rounds[k].primary # <<>>

\* C14 amended: the empty SmashID is always assigned in the first round; it
\* is the primary of that round exactly when the input has no other SmashID;
\* a TokenID whose only SmashID is empty ends with the first GroupID.
C14_EmptyJoinsFirstRound ==
    (gpc = "returned" /\ EmptyTokenIDs # {}) =>
        /\ <<>> \in rounds[1].joined
        /\ (\E k \in DOMAIN rounds : rounds[k].primary = <<>>) <=> InputSmashIDs = {<<>>}
        /\ \A t \in EmptyTokenIDs :
               SmashIDsOfToken(t) = {<<>>} => result[t] = rounds[1].group_id

\* An empty SmashID next to two groups, with a TokenID that has no other SmashID.
C14_Witness ==
    /\ gpc = "returned"
    /\ Len(rounds) >= 2
    /\ \E t \in EmptyTokenIDs : SmashIDsOfToken(t) = {<<>>}

(***************************************************************************)
(* smashid_util.py: create_smash_id.  The characters modelled are          *)
(*   32 ' '   45 '-'   49 '1'   65..90 'A'..'Z'   97..122 'a'..'z'         *)
(*   201 'É'  223 'ß'  233 'é'  305 'ı' (dotless i)                        *)
(* with the results of str.upper(), str.isalpha() and str.isascii() that   *)
(* Python gives for them: 'ß'.upper() is 'SS', 'ı'.upper() is 'I',         *)
(* 'é'.upper() is 'É'.                                                     *)
(***************************************************************************)
upper_of(c) ==
    IF c \in 97..122 THEN <<c - 32>>
    ELSE IF c = 223 THEN <<83, 83>>
    ELSE IF c = 233 THEN <<201>>
    ELSE IF c = 305 THEN <<73>>
    ELSE <<c>>

\* line 24: name.upper()
upper(s) == Flatten([i \in 1..Len(s) |-> upper_of(s[i])])

isalpha(c) == c \in (65..90) \cup (97..122) \cup {201, 223, 233, 305}
isascii(c) == c < 128

\* lines 21-26: the generator, with the characters seen so far
RECURSIVE smash_scan(_, _)
smash_scan(chars, seen) ==
    IF chars = <<>> THEN <<>>
    ELSE LET c == Head(chars)
         IN  IF isalpha(c) /\ isascii(c) /\ c \notin seen
             THEN <<c>> \o smash_scan(Tail(chars), seen \cup {c})
             ELSE smash_scan(Tail(chars), seen)

create_smash_id_upper_last(nm) == upper(smash_scan(nm, {}))
\* lines 21-26
create_smash_id(nm) == smash_scan(upper(nm), {})

(***************************************************************************)
(* worksheet_builder.py and worksheet_utils.py: the build up to the core   *)
(* table (build, lines 333-339).                                           *)
(***************************************************************************)
\* str.strip() for the blank
RECURSIVE lstrip(_)
lstrip(s) == IF s # <<>> /\ Head(s) = 32 THEN lstrip(Tail(s)) ELSE s
strip(s) == Reverse(lstrip(Reverse(lstrip(s))))

\* x or ''
or_empty(x) == IF x = None THEN <<>> ELSE Get(x)

\* _compute_smash_ids, lines 155-158:
\* c.FullName or f"{c.FirstName or ''} {c.LastName or ''}".strip()
full_name(c) ==
    IF or_empty(c.FullName) # <<>> THEN Get(c.FullName)
    ELSE strip(or_empty(c.FirstName) \o <<32>> \o or_empty(c.LastName))

\* sorted(set of str)
RECURSIVE sorted_strs(_)
sorted_strs(S) ==
    IF S = {} THEN <<>>
    ELSE LET m == CHOOSE x \in S : \A y \in S \ {x} : str_lt(x, y)
         IN  <<m>> \o sorted_strs(S \ {m})

\* "|".join(list of str)
RECURSIVE join_bar(_)
join_bar(ss) ==
    IF ss = <<>> THEN <<>>
    ELSE IF Len(ss) = 1 THEN ss[1]
    ELSE ss[1] \o <<124>> \o join_bar(Tail(ss))

\* smash.split("|")
RECURSIVE split_bar(_)
split_bar(s) ==
    IF \A i \in DOMAIN s : s[i] # 124 THEN <<s>>
    ELSE LET k == CHOOSE i \in DOMAIN s : s[i] = 124 /\ \A j \in 1..(i - 1) : s[j] # 124
         IN  <<SubSeq(s, 1, k - 1)>> \o split_bar(SubSeq(s, k + 1, Len(s)))

\* _compute_smash_ids, lines 161-181: per TokenID the SmashIDs of maximal
\* length, sorted and joined by '|'; "" when every SmashID of the Token is empty.
compute_smash_ids(chs) ==
    [t \in {chs[i].TokenID : i \in DOMAIN chs} |->
        LET col == {create_smash_id(full_name(chs[i])) :
                        i \in {j \in DOMAIN chs : chs[j].TokenID = t}}
            maxlen == CHOOSE n \in {Len(x) : x \in col} : \A x \in col : Len(x) <= n
        IN  IF \E x \in col : x # <<>>
            THEN join_bar(sorted_strs({x \in col : Len(x) = maxlen}))
            ELSE <<>>]

\* The (TokenID, SmashID) pairs of one Token of token_smash_final.
pairs_of_token(tid, smash) ==
    LET smash_ids == split_bar(smash)
    IN  [j \in 1..Len(smash_ids) |-> <<tid, smash_ids[j]>>]

worksheet_pairs_unfiltered(token_smash_final) ==
    LET tids == SortedSeq(DOMAIN token_smash_final)
    IN  Flatten([k \in 1..Len(tids) |-> pairs_of_token(tids[k], token_smash_final[tids[k]])])
\* process_worksheet_group_ids, lines 28-33: "if smash:" skips the Tokens
\* whose SmashID is empty.
worksheet_pairs(token_smash_final) ==
    LET tids == SortedSeq(DOMAIN token_smash_final)
    IN  Flatten([k \in 1..Len(tids) |->
                    IF token_smash_final[tids[k]] # <<>>
                    THEN pairs_of_token(tids[k], token_smash_final[tids[k]])
                    ELSE <<>>])

\* tokenid_to_p20id of the build
tokenid_to_p20id == [t \in {pt[2] : pt \in TokenOfIdentity} |->
                        (CHOOSE pt \in TokenOfIdentity : pt[2] = t)[1]]

\* _build_core, lines 414-437: one row per child whose TokenID has a P20ID.
core_row(child, smash_map, group_map) ==
    [TokenID |-> child.TokenID, FullName |-> child.FullName,
     FirstName |-> child.FirstName, LastName |-> child.LastName,
     P20ID |-> tokenid_to_p20id[child.TokenID],
     SmashID |-> IF child.TokenID \in DOMAIN smash_map THEN smash_map[child.TokenID]
                 ELSE <<>>,
     GroupID |-> IF child.TokenID \in DOMAIN group_map THEN Some(group_map[child.TokenID])
                 ELSE None,
     InvalidSSN |-> "", InvalidDob |-> "", DoNotMerge |-> ""]

build_core(chs, smash_map, group_map) ==
    LET kept == SelectSeq(chs, LAMBDA c : c.TokenID \in DOMAIN tokenid_to_p20id)
    IN  [i \in 1..Len(kept) |-> core_row(kept[i], smash_map, group_map)]

\* A missing value (NaN) in a column of str.
NaNStr == <<-1>>

select_main_last(smash_series) ==
    LET variants == UNION {Range(split_bar(x)) : x \in smash_series}
    IN  IF variants = {} THEN <<>> ELSE longest_of_last_in_order(variants)
\* _overwrite_smashid_with_group_canonical, lines 212-218: the variants of
\* the SmashIDs of one group, longest first, then lexicographic; the first.
select_main(smash_series) ==
    LET variants == UNION {Range(split_bar(x)) : x \in smash_series}
    IN  IF variants = {} THEN <<>> ELSE longest_of(variants)

\* line 220: sheet.groupby("GroupID")["SmashID"].transform(select_main).  The
\* rows with a null GroupID belong to no group: depending on the pandas
\* version transform leaves NaN in them or keeps their value (no_group_value).
overwrite_smashid_with_group_canonical(rows, no_group_value) ==
    [i \in 1..Len(rows) |->
        IF rows[i].GroupID # None
        THEN [rows[i] EXCEPT !.SmashID =
                 select_main({rows[j].SmashID :
                                 j \in {k \in DOMAIN rows : rows[k].GroupID = rows[i].GroupID}})]
        ELSE [rows[i] EXCEPT !.SmashID = IF no_group_value = "NaN" THEN NaNStr ELSE @]]

\* build, line 334: token_to_smash = self._compute_smash_ids(children)
build_smash_ids ==
    /\ gpc = "build"
    /\ token_to_smash' = compute_smash_ids(children)
    /\ gpc' = "group_ids"
    /\ UNCHANGED << children, sheet, token_smashids, group_id_counter, smashid_to_tokenids,
                    unassigned_smashids, result, rounds >>
    /\ UNCHANGED << consume_vars, prep_vars, codec_vars, smash_vars, k12_vars >>

\* build, line 335, and process_worksheet_group_ids up to the call
\* GroupIdAssigner().assign_group_ids(token_smash_pairs)
build_group_ids ==
    /\ gpc = "group_ids"
    /\ token_smashids' = worksheet_pairs(token_to_smash)
    /\ group_id_counter' = 1
    /\ gpc' = "assign"
    /\ UNCHANGED << children, token_to_smash, sheet, smashid_to_tokenids,
                    unassigned_smashids, result, rounds >>
    /\ UNCHANGED << consume_vars, prep_vars, codec_vars, smash_vars, k12_vars >>

\* build, line 339: sheet = self._build_core(children, tokenid_to_p20id,
\* token_to_smash, group_map), group_map being the dict assign_group_ids returned
build_core_table ==
    /\ gpc = "returned"
    /\ children # <<>>
    /\ sheet' = build_core(children, token_to_smash, result)
    /\ gpc' = "built"
    /\ UNCHANGED << children, token_to_smash, token_smashids, group_id_counter,
                    smashid_to_tokenids, unassigned_smashids, result, rounds >>
    /\ UNCHANGED << consume_vars, prep_vars, codec_vars, smash_vars, k12_vars >>

\* build, line 359 (k12_df and wage_df empty: nothing is merged):
\* sheet = self._overwrite_smashid_with_group_canonical(sheet)
build_canonical_smashid ==
    /\ gpc = "built"
    /\ \E no_group_value \in {"NaN", "kept"} :
           sheet' = overwrite_smashid_with_group_canonical(sheet, no_group_value)
    /\ gpc' = "canonical"
    /\ UNCHANGED << children, token_to_smash, token_smashids, group_id_counter,
                    smashid_to_tokenids, unassigned_smashids, result, rounds >>
    /\ UNCHANGED << consume_vars, prep_vars, codec_vars, smash_vars, k12_vars >>

NextBuild ==
    \/ build_smash_ids
    \/ build_group_ids
    \/ assign_group_ids
    \/ assign_round
    \/ assign_return
    \/ build_core_table
    \/ build_canonical_smashid

(***************************************************************************)
(* The PersonChild rows of a build: names that give the SmashIDs "AB",     *)
(* "BA", "ABC" and "", as a full name or as first and last name.           *)
(***************************************************************************)
MaxChildren == 2   \* PersonChild rows of one build

PersonChild(tid, full, first, last) ==
    [TokenID |-> tid, FullName |-> full, FirstName |-> first, LastName |-> last]

\* "Ab", "ba", "ABC", "1-"
FullNames == {<<65, 98>>, <<98, 97>>, <<65, 66, 67>>, <<49, 45>>}

ChildRows ==
    {PersonChild(t, Some(f), None, None) : t \in {1, 2}, f \in FullNames}
    \cup {PersonChild(t, full, first, last) :
              t \in {1, 2}, full \in {None, Some(<<>>)},
              first \in {None, Some(<<98>>)}, last \in {None, Some(<<97>>)}}
    \cup {PersonChild(4, Some(<<65, 98>>), None, None)}

InitBuild ==
    /\ NoConsume
    /\ PrepIdle
    /\ CodecIdle
    /\ SmashIdle
    /\ K12Idle
    /\ children \in SeqsUpTo(ChildRows, MaxChildren) \ {<<>>}
    /\ token_to_smash = <<>>
    /\ sheet = <<>>
    /\ token_smashids = <<>>
    /\ group_id_counter = 1
    /\ smashid_to_tokenids = <<>>
    /\ unassigned_smashids = {}
    /\ result = <<>>
    /\ rounds = <<>>
    /\ gpc = "build"

SpecBuild == InitBuild /\ [][NextBuild]_vars

(***************************************************************************)
(* Claims about the GroupIDs of a worksheet build (SpecBuild).             *)
(***************************************************************************)
\* C15 as stated: every Token whose computed SmashID is empty is passed to
\* assign_group_ids and its rows carry the GroupID of the first group formed,
\* not a null GroupID.
C15_EmptySmashIDGetsFirstGroupID ==
    gpc = "built" =>
        \A i \in DOMAIN sheet :
            sheet[i].SmashID = <<>> =>
                /\ sheet[i].TokenID \in InputTokenIDs
                /\ sheet[i].GroupID # None
                /\ rounds # <<>> => sheet[i].GroupID = Some(rounds[1].group_id)

\* C15 amended: a Token whose computed SmashID is empty is not passed to
\* assign_group_ids (no empty SmashID reaches it) and its rows carry a null
\* GroupID; the rows of every other Token carry a GroupID.
C15_EmptySmashIDGetsNoGroupID ==
    gpc = "built" =>
        /\ <<>> \notin InputSmashIDs
        /\ \A i \in DOMAIN sheet :
               IF sheet[i].SmashID = <<>>
               THEN sheet[i].TokenID \notin InputTokenIDs /\ sheet[i].GroupID = None
               ELSE sheet[i].TokenID \in InputTokenIDs /\ sheet[i].GroupID # None

\* A sheet with a row of a no-name Token next to a row of a grouped Token.
C15_Witness ==
    /\ gpc = "built"
    /\ \E i, j \in DOMAIN sheet :
           /\ sheet[i].SmashID = <<>>
           /\ sheet[i].GroupID = None
           /\ sheet[j].GroupID = Some(1)

(***************************************************************************)
(* bitarray_util.py: the two conversions, applied one after the other.     *)
(***************************************************************************)
\* line 27: ''.join(enrolled_char if bit == 1 else not_enrolled_char for bit in bitarray)
convert_bitarray_to_string(bits, enrolled, not_enrolled) ==
    [i \in 1..Len(bits) |-> IF bits[i] = 1 THEN enrolled ELSE not_enrolled]

convert_string_to_bitarray_default(string, enrolled) ==
    [i \in 1..Len(string) |-> IF string[i] = 35 THEN 1 ELSE 0]
\* line 41: [1 if char == enrolled_char else 0 for char in enrollment_string]
convert_string_to_bitarray(string, enrolled) ==
    [i \in 1..Len(string) |-> IF string[i] = enrolled THEN 1 ELSE 0]

encode ==
    /\ enrollment_string = None
    /\ enrollment_string' =
           Some(convert_bitarray_to_string(bitarray, enrolled_char, not_enrolled_char))
    /\ UNCHANGED << bitarray, enrolled_char, not_enrolled_char, decoded >>
    /\ UNCHANGED << consume_vars, prep_vars, cluster_vars, smash_vars, k12_vars >>

decode ==
    /\ enrollment_string # None
    /\ decoded = None
    /\ decoded' = Some(convert_string_to_bitarray(Get(enrollment_string), enrolled_char))
    /\ UNCHANGED << bitarray, enrolled_char, not_enrolled_char, enrollment_string >>
    /\ UNCHANGED << consume_vars, prep_vars, cluster_vars, smash_vars, k12_vars >>

NextCodec ==
    \/ encode
    \/ decode

MaxBits == 3       \* length of a bitarray given to the codec

\* '#', '_', 'X'
MarkerChars == {35, 95, 88}

InitCodec ==
    /\ NoConsume
    /\ PrepIdle
    /\ ClusterIdle
    /\ SmashIdle
    /\ K12Idle
    /\ bitarray \in SeqsUpTo({0, 1}, MaxBits)
    /\ enrolled_char \in MarkerChars
    /\ not_enrolled_char \in MarkerChars
    /\ enrollment_string = None
    /\ decoded = None

SpecCodec == InitCodec /\ [][NextCodec]_vars

\* C16 as stated: for every 0/1 sequence and every pair of markers, decoding
\* the encoded string with the presence marker gives the sequence back, and
\* the encoded string is as long as the sequence.
C16_RoundTripAnyMarkers ==
    /\ enrollment_string # None => Len(Get(enrollment_string)) = Len(bitarray)
    /\ decoded # None => Get(decoded) = bitarray

\* C16 amended: the encoded string is as long as the sequence; decoding gives
\* the sequence back when the two markers differ, and gives all ones when
\* they are the same character.
C16_RoundTripDistinctMarkers ==
    /\ enrollment_string # None => Len(Get(enrollment_string)) = Len(bitarray)
    /\ decoded # None =>
           Get(decoded) = IF enrolled_char # not_enrolled_char THEN bitarray
                          ELSE [i \in 1..Len(bitarray) |-> 1]

\* A sequence with a 0 and a 1 went through both conversions with two
\* different markers, neither being the default '#'.
C16_Witness ==
    /\ decoded # None
    /\ {0, 1} \subseteq Range(bitarray)
    /\ enrolled_char # not_enrolled_char
    /\ enrolled_char # 35

(***************************************************************************)
(* create_smash_id applied to a name and then to its own result.           *)
(***************************************************************************)
call_create_smash_id ==
    /\ smash_results = <<>>
    /\ smash_results' = <<create_smash_id(name)>>
    /\ UNCHANGED name
    /\ UNCHANGED << consume_vars, prep_vars, cluster_vars, codec_vars, k12_vars >>

call_create_smash_id_again ==
    /\ Len(smash_results) = 1
    /\ smash_results' = Append(smash_results, create_smash_id(smash_results[1]))
    /\ UNCHANGED name
    /\ UNCHANGED << consume_vars, prep_vars, cluster_vars, codec_vars, k12_vars >>

NextSmash ==
    \/ call_create_smash_id
    \/ call_create_smash_id_again

MaxNameLen == 3    \* characters of a name given to create_smash_id

\* ' ', '1', 'A', 'B', 'a', 'b', 'ß', 'é', 'ı'
NameChars == {32, 49, 65, 66, 97, 98, 223, 233, 305}

InitSmash ==
    /\ NoConsume
    /\ PrepIdle
    /\ ClusterIdle
    /\ CodecIdle
    /\ K12Idle
    /\ name \in SeqsUpTo(NameChars, MaxNameLen)
    /\ smash_results = <<>>

SpecSmash == InitSmash /\ [][NextSmash]_vars

(***************************************************************************)
(* Claims about create_smash_id (SpecSmash).                               *)
(***************************************************************************)
IsAsciiLetter(c) == c \in (65..90) \cup (97..122)
AsciiUpper(c) == IF c \in 97..122 THEN c - 32 ELSE c
\* The elements of s without those that occurred earlier in s.
FirstOccurrences(s) ==
    LET firsts == SortedSeq({i \in DOMAIN s : \A j \in 1..(i - 1) : s[j] # s[i]})
    IN  [k \in 1..Len(firsts) |-> s[firsts[k]]]
\* The ASCII letters of the input, upper-cased, in first-occurrence order:
\* what is left when every other input character contributes nothing.
AsciiLettersInOrder(s) ==
    LET letters == SelectSeq(s, IsAsciiLetter)
    IN  FirstOccurrences([i \in 1..Len(letters) |-> AsciiUpper(letters[i])])

\* C17: the value returned by create_smash_id consists of letters 'A'..'Z'
\* only, has no character twice, and is the sequence of the ASCII letters of
\* the input (case-normalized) in the order of their first occurrence: an
\* input character that is not an ASCII letter contributes nothing.
C17_OnlyAsciiLettersOfInput ==
    smash_results # <<>> =>
        LET out == smash_results[1]
        IN  /\ \A i \in DOMAIN out : out[i] \in 65..90
            /\ \A i, j \in DOMAIN out : out[i] = out[j] => i = j
            /\ out = AsciiLettersInOrder(name)

\* C18: create_smash_id applied to its own result returns that result.
C18_Idempotent ==
    Len(smash_results) = 2 => smash_results[2] = smash_results[1]

\* A name with both cases of one letter, a repeated letter and a character
\* that is dropped went through create_smash_id twice.
C18_Witness ==
    /\ Len(smash_results) = 2
    /\ Len(smash_results[1]) >= 1
    /\ Len(smash_results[1]) < Len(name)
    /\ \E i, j \in DOMAIN name : name[i] = name[j] + 32

(***************************************************************************)
(* k12_processor.py: compute_enrollment_bitarray.  A datetime.date is      *)
(* <<year, month, day>>; a datetime or pandas Timestamp, which has a       *)
(* date() method, is <<year, month, day, hour>>.                           *)
(***************************************************************************)
\* hasattr(x, "date")
hasattr_date(x) == Len(x) = 4
\* line 115: (x.date() if hasattr(x, "date") else x)
as_date(x) == IF hasattr_date(x) THEN SubSeq(x, 1, 3) ELSE x
\* a <= b for two datetime.date
date_le(a, b) ==
    \/ a[1] < b[1]
    \/ a[1] = b[1] /\ a[2] < b[2]
    \/ a[1] = b[1] /\ a[2] = b[2] /\ a[3] <= b[3]

months_of_calendar_year(year) ==
    [i \in 1..4 |-> <<year, i + 8, 15>>] \o [i \in 1..8 |-> <<year, i, 15>>]
\* lines 103-106: the 15th of September..December of school_year - 1, then of
\* January..August of school_year
months(year) ==
    LET year_start == year - 1
    IN  [i \in 1..4 |-> <<year_start, i + 8, 15>>] \o [i \in 1..8 |-> <<year, i, 15>>]

\* lines 112-121
compute_enrollment_bitarray(year, ps) ==
    [i \in 1..Len(months(year)) |->
        IF \E k \in DOMAIN ps : /\ date_le(as_date(ps[k][1]), months(year)[i])
                                /\ date_le(months(year)[i], as_date(ps[k][2]))
        THEN 1 ELSE 0]

call_compute_enrollment_bitarray ==
    /\ enrollment_bitarray = None
    /\ enrollment_bitarray' = Some(compute_enrollment_bitarray(school_year, periods))
    /\ UNCHANGED << school_year, periods, k12_pivot, trimmed >>
    /\ UNCHANGED << consume_vars, prep_vars, cluster_vars, codec_vars, smash_vars >>

NextEnrollment ==
    \/ call_compute_enrollment_bitarray

MaxPeriods == 2    \* enrollment periods of one Token in one school year

SchoolYears == {2005, 2006}
\* Days around the first and the last sampled date of school year 2005, one
\* of them as a Timestamp, and days in between.
PeriodDates ==
    {<<2004, 9, 14>>, <<2004, 9, 15, 8>>, <<2004, 9, 16>>,
     <<2005, 1, 15>>, <<2005, 8, 15>>, <<2005, 8, 16>>}

InitEnrollment ==
    /\ NoConsume
    /\ PrepIdle
    /\ ClusterIdle
    /\ CodecIdle
    /\ SmashIdle
    /\ school_year \in SchoolYears
    /\ periods \in SeqsUpTo(PeriodDates \X PeriodDates, MaxPeriods)
    /\ enrollment_bitarray = None
    /\ k12_pivot = <<>>
    /\ trimmed = None

SpecEnrollment == InitEnrollment /\ [][NextEnrollment]_vars

(***************************************************************************)
(* Claims about compute_enrollment_bitarray (SpecEnrollment).              *)
(***************************************************************************)
\* The i-th sampled date of school year y, and the calendar order of days.
SampledDate(y, i) == IF i <= 4 THEN <<y - 1, 8 + i, 15>> ELSE <<y, i - 4, 15>>
DayNumber(d) == (d[1] * 12 + d[2]) * 31 + d[3]
Covers(period, d) ==
    DayNumber(period[1]) <= DayNumber(d) /\ DayNumber(d) <= DayNumber(period[2])

\* C19: compute_enrollment_bitarray returns 12 bits; bit i is 1 exactly when
\* the i-th sampled date (the 15th of September..December of Y-1, then of
\* January..August of Y) lies in some period, both ends included; periods
\* that cover no sampled date give twelve zeros.
C19_BitIffSampledDateCovered ==
    enrollment_bitarray # None =>
        LET bits == Get(enrollment_bitarray)
        IN  /\ Len(bits) = 12
            /\ \A i \in 1..12 :
                   bits[i] = IF \E k \in DOMAIN periods :
                                    Covers(periods[k], SampledDate(school_year, i))
                             THEN 1 ELSE 0
            /\ (\A i \in 1..12 : \A k \in DOMAIN periods :
                    ~Covers(periods[k], SampledDate(school_year, i)))
                   => bits = [i \in 1..12 |-> 0]

\* Two periods, one ending on the first sampled date, give a bitmap with
\* ones and zeros whose first bit is set.
C19_Witness ==
    /\ enrollment_bitarray # None
    /\ Len(periods) = 2
    /\ \E k \in DOMAIN periods : as_date(periods[k][2]) = SampledDate(school_year, 1)
    /\ Get(enrollment_bitarray)[1] = 1
    /\ {0, 1} \subseteq Range(Get(enrollment_bitarray))

\* Periods that cover none of the sampled dates of the year.
C19_WitnessAllZero ==
    /\ enrollment_bitarray # None
    /\ periods # <<>>
    /\ \A k \in DOMAIN periods : DayNumber(periods[k][1]) <= DayNumber(periods[k][2])
    /\ Get(enrollment_bitarray) = [i \in 1..12 |-> 0]

(***************************************************************************)
(* k12_processor.py: trim_non_enrollment_years.  The pivot is the sequence *)
(* of its school-year columns; a column has its name (the school year) and *)
(* one cell per TokenID of the index; a cell is None (NaN: the Token has   *)
(* no row for that year) or Some(bitarray).                                *)
(***************************************************************************)
RECURSIVE sum(_)
sum(bits) == IF bits = <<>> THEN 0 ELSE Head(bits) + sum(Tail(bits))

\* lines 144-150: has_enrollment applied to "x if isinstance(x, list) else []"
has_enrollment(cell) == IF cell # None THEN sum(Get(cell)) ELSE 0

\* line 151: not col_data.apply(has_enrollment).eq(0).all()
column_enrolled(col) == ~ \A r \in DOMAIN col.data : has_enrollment(col.data[r]) = 0

\* lines 138-153, as a 0-based position
first_enrolled(cols) ==
    IF \E i \in DOMAIN cols : column_enrolled(cols[i])
    THEN (CHOOSE i \in DOMAIN cols :
              /\ column_enrolled(cols[i])
              /\ \A j \in 1..(i - 1) : ~column_enrolled(cols[j])) - 1
    ELSE 0

\* lines 139-167
last_enrolled(cols) ==
    IF \E i \in DOMAIN cols : column_enrolled(cols[i])
    THEN (CHOOSE i \in DOMAIN cols :
              /\ column_enrolled(cols[i])
              /\ \A j \in (i + 1)..Len(cols) : ~column_enrolled(cols[j])) - 1
    ELSE Len(cols) - 1

drop_every_empty_year(cols) == SelectSeq(cols, column_enrolled)
\* line 170: k12_pivot.iloc[:, first_enrolled:last_enrolled + 1]
trim_non_enrollment_years(cols) ==
    SubSeq(cols, first_enrolled(cols) + 1, last_enrolled(cols) + 1)

call_trim_non_enrollment_years ==
    /\ trimmed = None
    /\ trimmed' = Some(trim_non_enrollment_years(k12_pivot))
    /\ UNCHANGED << school_year, periods, enrollment_bitarray, k12_pivot >>
    /\ UNCHANGED << consume_vars, prep_vars, cluster_vars, codec_vars, smash_vars >>

NextTrim ==
    \/ call_trim_non_enrollment_years

MaxYears == 4      \* school-year columns of a pivot

\* The bitarrays of a pivot of two TokenIDs: no enrollment, enrolled in
\* September and October.
NotEnrolled == [i \in 1..12 |-> 0]
EnrolledInFall == [i \in 1..12 |-> IF i <= 2 THEN 1 ELSE 0]
\* The cells of one school year for the two Tokens.
PivotColumns ==
    {<<None, None>>, <<Some(NotEnrolled), None>>, <<Some(NotEnrolled), Some(NotEnrolled)>>,
     <<Some(EnrolledInFall), None>>, <<Some(NotEnrolled), Some(EnrolledInFall)>>}
\* bitarrays.pivot(index="TokenID", columns="SchoolYear", ...): the columns
\* are the school years in ascending order.
Pivots ==
    {[i \in 1..Len(cells) |-> [name |-> 2004 + i, data |-> cells[i]]] :
        cells \in SeqsUpTo(PivotColumns, MaxYears)}

InitTrim ==
    /\ NoConsume
    /\ PrepIdle
    /\ ClusterIdle
    /\ CodecIdle
    /\ SmashIdle
    /\ school_year = 0
    /\ periods = <<>>
    /\ enrollment_bitarray = None
    /\ k12_pivot \in Pivots
    /\ trimmed = None

SpecTrim == InitTrim /\ [][NextTrim]_vars

(***************************************************************************)
(* Claims about trim_non_enrollment_years (SpecTrim).                      *)
(***************************************************************************)
\* Every Token's bitmap in the column is all-zero or missing.
NoEnrollmentIn(col) ==
    \A r \in DOMAIN col.data :
        col.data[r] = None \/ \A i \in DOMAIN Get(col.data[r]) : Get(col.data[r])[i] = 0
\* Column i of the input is in the output.
KeptColumn(i) == \E j \in DOMAIN Get(trimmed) : Get(trimmed)[j].name = k12_pivot[i].name

\* C20: the output of trim_non_enrollment_years is a contiguous run of the
\* input columns in their order; a removed column has no enrollment and lies
\* in the leading or in the trailing run of such columns; a column between
\* two columns with some enrollment is never removed.
C20_TrimsOnlyLeadingAndTrailing ==
    trimmed # None =>
        LET n == Len(k12_pivot)
        IN  /\ \E a \in 1..(n + 1) : \E b \in (a - 1)..n :
                   Get(trimmed) = SubSeq(k12_pivot, a, b)
            /\ \A i \in 1..n :
                   ~KeptColumn(i) =>
                       \/ \A j \in 1..i : NoEnrollmentIn(k12_pivot[j])
                       \/ \A j \in i..n : NoEnrollmentIn(k12_pivot[j])
            /\ \A i \in 1..n :
                   (/\ \E j \in 1..(i - 1) : ~NoEnrollmentIn(k12_pivot[j])
                    /\ \E k \in (i + 1)..n : ~NoEnrollmentIn(k12_pivot[k]))
                       => KeptColumn(i)

\* A leading column without enrollment was removed while a column without
\* enrollment between two enrolled columns was kept.
C20_Witness ==
    /\ trimmed # None
    /\ Len(k12_pivot) >= 4
    /\ NoEnrollmentIn(k12_pivot[1]) /\ ~KeptColumn(1)
    /\ ~NoEnrollmentIn(k12_pivot[2])
    /\ NoEnrollmentIn(k12_pivot[3]) /\ KeptColumn(3)
    /\ ~NoEnrollmentIn(k12_pivot[4])

\* C21: when no school-year column of the pivot has an enrollment for any
\* Token (every bitmap all-zero or missing), trim_non_enrollment_years
\* returns a result without school-year columns.
C21_AllZeroPivotGivesEmptyResult ==
    (trimmed # None /\ \A i \in DOMAIN k12_pivot : NoEnrollmentIn(k12_pivot[i]))
        => Get(trimmed) = <<>>

(***************************************************************************)
(* Further claims about assign_group_ids (SpecAssign, and SpecAssignFair   *)
(* for termination: the interpreter keeps executing the loop).             *)
(***************************************************************************)
\* The calls of the fair specification: the pairs of two TokenIDs.
FairInputs == SeqsUpTo((1..2) \X SmashIDs, MaxPairs) \cup {ExamplePairs}

InitAssignFair ==
    /\ NoConsume
    /\ PrepIdle
    /\ CodecIdle
    /\ SmashIdle
    /\ K12Idle
    /\ children = <<>>
    /\ token_to_smash = <<>>
    /\ sheet = <<>>
    /\ token_smashids \in FairInputs
    /\ group_id_counter = 1
    /\ smashid_to_tokenids = <<>>
    /\ unassigned_smashids = {}
    /\ result = <<>>
    /\ rounds = <<>>
    /\ gpc = "assign"

\* The caller runs assign_group_ids to its end: a step that can be taken is taken.
SpecAssignFair == InitAssignFair /\ [][NextAssign]_vars /\ WF_vars(NextAssign)

\* A round has just been executed by the step.
RoundStep == Len(rounds') = Len(rounds) + 1
\* other could join the group of primary without being it.
ShorterSubset(other, primary) ==
    Len(other) < Len(primary) /\ Range(other) \subseteq Range(primary)

\* C25: the primary of a round is the longest SmashID still unassigned, the
\* lexically smallest of that length; primaries therefore come in
\* non-increasing length; a SmashID joins the first round whose primary it
\* is a shorter subset of, and is in no later round.
C25_PrimarySelectionOrder ==
    /\ [][RoundStep =>
            LET primary == rounds'[Len(rounds')].primary
            IN  /\ primary \in unassigned_smashids
                /\ \A s \in unassigned_smashids \ {primary} :
                       Len(s) < Len(primary) \/ (Len(s) = Len(primary) /\ str_lt(primary, s))]_vars
    /\ [](\A j, k \in DOMAIN rounds :
              j < k => /\ Len(rounds[j].primary) >= Len(rounds[k].primary)
                       /\ rounds[j].joined \cap rounds[k].joined = {}
                       /\ \A s \in rounds[k].joined : ~ShorterSubset(s, rounds[j].primary))

\* Two SmashIDs of one length were primaries in lexical order, and a SmashID
\* that is a shorter subset of both joined the first.
C25_Witness ==
    /\ gpc = "returned"
    /\ Len(rounds) >= 2
    /\ Len(rounds[1].primary) = Len(rounds[2].primary)
    /\ \E s \in rounds[1].joined :
           ShorterSubset(s, rounds[1].primary) /\ ShorterSubset(s, rounds[2].primary)

\* C26: assign_group_ids terminates; every round removes at least its
\* primary from the unassigned pool and adds nothing to it; the number of
\* rounds (GroupIDs allocated) is at most the number of distinct SmashIDs of
\* the input, and the pool is empty at the end.
C26_Terminates ==
    /\ <>(gpc = "returned")
    /\ [][RoundStep =>
            /\ unassigned_smashids' \subseteq unassigned_smashids
            /\ rounds'[Len(rounds')].primary \in unassigned_smashids \ unassigned_smashids']_vars
    /\ [](Len(rounds) <= Cardinality(InputSmashIDs))
    /\ [](gpc = "returned" => unassigned_smashids = {})

\* A call that ended after as many rounds as it had SmashIDs, three of them.
C26_Witness ==
    /\ gpc = "returned"
    /\ Len(rounds) = 3
    /\ Cardinality(InputSmashIDs) = 3

\* C27: a TokenID that came with several SmashIDs ends with the GroupID
\* allocated last among the rounds its SmashIDs joined, the largest of them;
\* an earlier GroupID can be left without any TokenID.
C27_LastAllocatedGroupWins ==
    gpc = "returned" =>
        \A t \in InputTokenIDs :
            LET gids == {rounds[RoundOf(smash)].group_id : smash \in SmashIDsOfToken(t)}
            IN  /\ result[t] \in gids
                /\ \A g \in gids : g <= result[t]

\* A TokenID whose SmashIDs joined two rounds, the earlier GroupID being
\* left without TokenID.
C27_Witness ==
    /\ gpc = "returned"
    /\ \E t \in InputTokenIDs : \E a, b \in SmashIDsOfToken(t) : RoundOf(a) # RoundOf(b)
    /\ \E g \in AllocatedGroupIDs : \A t \in DOMAIN result : result[t] # g

(***************************************************************************)
(* Claims about the displayed SmashID of a built worksheet (SpecBuild).    *)
(***************************************************************************)
\* The primary of the round that allocated GroupID g.
PrimaryOfGroup(g) == rounds[CHOOSE k \in DOMAIN rounds : rounds[k].group_id = g].primary
\* The SmashIDs (tie-delimited ones taken apart) of the Tokens that have a
\* row with GroupID g in the sheet.
VariantsOfGroup(g) ==
    UNION {SmashIDsOfToken(sheet[j].TokenID) :
              j \in {k \in DOMAIN sheet : sheet[k].GroupID = Some(g)}}
\* The longest of a set of SmashIDs, the lexically smallest of that length.
BestOf(V) ==
    CHOOSE v \in V : \A w \in V \ {v} : Len(w) < Len(v) \/ (Len(w) = Len(v) /\ str_lt(v, w))
\* No Token of the build has tie-delimited SmashIDs, and every Token has a
\* P20ID (so every Token has its rows in the sheet).
NoTiesAndAllTokensInSheet ==
    /\ \A t \in InputTokenIDs : Cardinality(SmashIDsOfToken(t)) = 1
    /\ \A i \in DOMAIN children : children[i].TokenID \in DOMAIN tokenid_to_p20id

\* C28 as stated: after canonicalization the SmashID shown in the rows of a
\* GroupID is the primary of the round that allocated the GroupID, also when
\* a Token of the group has tie-delimited SmashIDs.
C28_DisplayedSmashIDIsPrimary ==
    gpc = "canonical" =>
        \A i \in DOMAIN sheet :
            sheet[i].GroupID # None =>
                sheet[i].SmashID = PrimaryOfGroup(Get(sheet[i].GroupID))

\* C28 amended: the SmashID shown in the rows of a GroupID is the best (the
\* longest, then lexically smallest) of the SmashIDs of the Tokens that have
\* rows with that GroupID; it is the primary of the round that allocated the
\* GroupID when no Token has tie-delimited SmashIDs and every Token has its
\* rows in the sheet.
C28_DisplayedSmashIDIsBestOfGroup ==
    gpc = "canonical" =>
        \A i \in DOMAIN sheet :
            sheet[i].GroupID # None =>
                /\ sheet[i].SmashID = BestOf(VariantsOfGroup(Get(sheet[i].GroupID)))
                /\ NoTiesAndAllTokensInSheet =>
                       sheet[i].SmashID = PrimaryOfGroup(Get(sheet[i].GroupID))

\* Two Tokens without ties in one group, the row of the second one showing
\* the primary of the first instead of its own shorter SmashID.
C28_Witness ==
    /\ gpc = "canonical"
    /\ NoTiesAndAllTokensInSheet
    /\ \E i \in DOMAIN sheet :
           /\ sheet[i].GroupID = Some(1)
           /\ sheet[i].SmashID # token_to_smash[sheet[i].TokenID]
           /\ sheet[i].SmashID = PrimaryOfGroup(1)

(***************************************************************************)
(* k12_processor.py: preprocess_data and generate_enrollment_bitarrays     *)
(***************************************************************************)

\* a <= b for two Timestamps <<year, month, day, hour>>
datetime_le(a, b) ==
    \/ a[1] < b[1]
    \/ a[1] = b[1] /\ a[2] < b[2]
    \/ a[1] = b[1] /\ a[2] = b[2] /\ a[3] < b[3]
    \/ a[1] = b[1] /\ a[2] = b[2] /\ a[3] = b[3] /\ a[4] <= b[4]

\* line 39: pd.to_datetime(f"{y}-08-31")
SchoolYearEnd(y) == <<y, 8, 31, 0>>

default_end_of_same_year(y) == <<y, 9, 1, 0>>
\* line 44: (OrganizationYear - 1) -> pd.to_datetime(f"{y}-09-01")
default_end(y) == <<y - 1, 9, 1, 0>>

\* lines 38-48
preprocess_data(df) ==
    LET kept == SelectSeq(df, LAMBDA r :
                    datetime_le(r.EnrollmentBeginDT, SchoolYearEnd(r.OrganizationYear)))
    IN  [i \in 1..Len(kept) |->
            [TokenID           |-> kept[i].TokenID,
             OrganizationYear  |-> kept[i].OrganizationYear,
             EnrollmentBeginDT |-> kept[i].EnrollmentBeginDT,
             EnrollmentEndDT   |-> IF kept[i].EnrollmentEndDT = None
                                   THEN default_end(kept[i].OrganizationYear)
                                   ELSE Get(kept[i].EnrollmentEndDT),
             SchoolYearEnd     |-> SchoolYearEnd(kept[i].OrganizationYear),
             SchoolYear        |-> kept[i].OrganizationYear]]

\* line 65: the keys of groupby(['TokenID', 'SchoolYear']), ascending
k12_group_keys(df) ==
    LET tokens == SortedSeq({df[i].TokenID : i \in DOMAIN df})
        years_of(t) == SortedSeq({df[i].SchoolYear : i \in {j \in DOMAIN df : df[j].TokenID = t}})
    IN  Flatten([a \in 1..Len(tokens) |->
                    [b \in 1..Len(years_of(tokens[a])) |->
                        <<tokens[a], years_of(tokens[a])[b]>>]])

\* lines 65-85
generate_enrollment_bitarrays(df) ==
    LET keys == k12_group_keys(df)
        group(k) == SelectSeq(df, LAMBDA r : r.TokenID = k[1] /\ r.SchoolYear = k[2])
        periods_of(k) == [i \in 1..Len(group(k)) |->
                            << as_date(group(k)[i].EnrollmentBeginDT),
                               as_date(group(k)[i].EnrollmentEndDT) >>]
    IN  [n \in 1..Len(keys) |->
            [TokenID            |-> keys[n][1],
             SchoolYear         |-> keys[n][2],
             EnrollmentBitarray |-> compute_enrollment_bitarray(keys[n][2], periods_of(keys[n]))]]

call_preprocess_data ==
    /\ k12_pre = None
    /\ k12_pre' = Some(preprocess_data(k12_df))
    /\ UNCHANGED << consume_vars, cluster_vars, codec_vars, smash_vars, k12_vars,
                    k12_df, bitarrays, wage_df, wage_block, optional_cols,
                    frame, column_order, result_df >>

call_generate_enrollment_bitarrays ==
    /\ k12_pre # None
    /\ bitarrays = None
    /\ bitarrays' = Some(generate_enrollment_bitarrays(Get(k12_pre)))
    /\ UNCHANGED << consume_vars, cluster_vars, codec_vars, smash_vars, k12_vars,
                    k12_df, k12_pre, wage_df, wage_block, optional_cols,
                    frame, column_order, result_df >>

NextPreprocess ==
    \/ call_preprocess_data
    \/ call_generate_enrollment_bitarrays

MaxK12Rows == 2
K12TokenIDs == {1, 2}
\* begin dates before, on the last day of, and after school year 2005
BeginDates == { <<2004, 10, 1, 0>>, <<2005, 8, 31, 0>>, <<2005, 9, 20, 0>> }
EndDates == { None, Some(<<2005, 1, 20, 0>>), Some(<<2006, 6, 30, 0>>) }
K12Rows == [TokenID : K12TokenIDs, OrganizationYear : SchoolYears,
            EnrollmentBeginDT : BeginDates, EnrollmentEndDT : EndDates]

InitPreprocess ==
    /\ NoConsume
    /\ ClusterIdle
    /\ CodecIdle
    /\ SmashIdle
    /\ K12Idle
    /\ k12_df \in SeqsUpTo(K12Rows, MaxK12Rows)
    /\ k12_pre = None
    /\ bitarrays = None
    /\ wage_df = <<>>
    /\ wage_block = None
    /\ optional_cols = <<>>
    /\ frame = [columns |-> <<>>, rows |-> <<>>]
    /\ column_order = <<>>
    /\ result_df = None

SpecPreprocess == InitPreprocess /\ [][NextPreprocess]_vars

\* The raw rows of a Token and year that preprocess_data keeps.
KeptRawRows(t, y) ==
    {i \in DOMAIN k12_df :
        /\ k12_df[i].TokenID = t
        /\ k12_df[i].OrganizationYear = y
        /\ datetime_le(k12_df[i].EnrollmentBeginDT, SchoolYearEnd(y))}

\* The raw rows that preprocess_data keeps, in their order.
KeptRaw ==
    SelectSeq(k12_df, LAMBDA r :
        datetime_le(r.EnrollmentBeginDT, SchoolYearEnd(r.OrganizationYear)))

AllZero(bits) == \A i \in DOMAIN bits : bits[i] = 0

\* C29: after preprocess_data no row lacks an end date, a row that lacked
\* one in the input ends on September 1 of year Y-1, which is before each
\* of the twelve sampled dates of school year Y; and a (Token, school year)
\* whose input periods all lack an end date gets twelve zero bits whatever
\* their begin dates are.
C29_AbsentEndNeverSetsABit ==
    /\ k12_pre # None =>
          /\ Len(Get(k12_pre)) = Len(KeptRaw)
          /\ \A i \in DOMAIN Get(k12_pre) :
                 LET r == Get(k12_pre)[i]
                     y == r.SchoolYear
                 IN  KeptRaw[i].EnrollmentEndDT = None
                     => /\ as_date(r.EnrollmentEndDT) = <<y - 1, 9, 1>>
                        /\ \A m \in 1..12 :
                               DayNumber(as_date(r.EnrollmentEndDT))
                                   < DayNumber(SampledDate(y, m))
    /\ bitarrays # None =>
          \A n \in DOMAIN Get(bitarrays) :
              LET b == Get(bitarrays)[n]
              IN  (\A j \in KeptRawRows(b.TokenID, b.SchoolYear) :
                        k12_df[j].EnrollmentEndDT = None)
                  => /\ Len(b.EnrollmentBitarray) = 12
                     /\ AllZero(b.EnrollmentBitarray)

\* Two periods without an end date, one beginning before and one inside the
\* school year, have been turned into a bitmap.
C29_Witness ==
    /\ bitarrays # None
    /\ \E n \in DOMAIN Get(bitarrays) :
          LET b == Get(bitarrays)[n]
          IN  /\ Cardinality(KeptRawRows(b.TokenID, b.SchoolYear)) = 2
              /\ \A j \in KeptRawRows(b.TokenID, b.SchoolYear) :
                     k12_df[j].EnrollmentEndDT = None
              /\ \E j, k \in KeptRawRows(b.TokenID, b.SchoolYear) :
                     k12_df[j].EnrollmentBeginDT # k12_df[k].EnrollmentBeginDT
              /\ AllZero(b.EnrollmentBitarray)

(***************************************************************************)
(* Further claim about consume() (Spec).                                   *)
(***************************************************************************)

\* C30: a run produces a processing summary only if its Phase 2 commits: a
\* run whose Phase 2 raised and was rolled back, a failing final commit
\* included, has left no summary of its job.
C30_NoSummaryForRolledBackPhase2 ==
    (pc = "failed" /\ raisedIn = 2) =>
        \A f \in summary : f.JobID # job_id

(***************************************************************************)
(* wage_processor.py: WageProcessor.prepare.  Amounts are in cents, so the *)
(* sentinel -9999.99 is -999999.  A table is its index (the TokenIDs) and  *)
(* its cells; a cell is Some(value), or None where pandas has NaN.  Column *)
(* names are their parts: "wq_2020_1_HR" is <<"wq", 2020, "1", "HR">>.     *)
(***************************************************************************)
QUARTERS == << "1", "2", "3", "4" >>

IsQuarter(term) == \E q \in DOMAIN QUARTERS : QUARTERS[q] = term

\* lines 123-124
normalize_sentinels(r) ==
    [r EXCEPT !.WageHR = IF @ = -9999 THEN 0 ELSE @,
              !.WageAMT = IF @ = -999999 THEN 0 ELSE @]

wage_key(r) == << r.TokenID, r.OrganizationYear, r.TermTypeCD, r.WageAMT, r.WageHR >>

\* lines 126-128: drop_duplicates(subset=[...]) keeps the first row of a key
RECURSIVE drop_duplicates_wage(_)
drop_duplicates_wage(df) ==
    IF df = <<>> THEN <<>>
    ELSE <<Head(df)>> \o
         drop_duplicates_wage(SelectSeq(Tail(df), LAMBDA r : wage_key(r) # wage_key(Head(df))))

\* lines 121-129
housekeep(df) ==
    drop_duplicates_wage([i \in 1..Len(df) |-> normalize_sentinels(df[i])])

\* aggfunc="first": the first row of a group, in the order of df
first_row(df, t, y, term) ==
    LET g == SelectSeq(df, LAMBDA r :
                 r.TokenID = t /\ r.OrganizationYear = y /\ r.TermTypeCD = term)
    IN  IF g = <<>> THEN None ELSE Some(Head(g))

\* The index of the pivot_table over the quarterly rows, and over the annual
\* rows: the TokenIDs that have such rows.
quarter_index(df) == {df[i].TokenID : i \in {j \in DOMAIN df : IsQuarter(df[j].TermTypeCD)}}
annual_index(df) == {df[i].TokenID : i \in {j \in DOMAIN df : df[j].TermTypeCD = "ANNUAL"}}

\* lines 141-156: the pivot of HasWages, reindexed over years x QUARTERS
present_of(df, t, y, q) ==
    LET f == first_row(df, t, y, QUARTERS[q])
    IN  IF f = None THEN FALSE ELSE Get(f).WageAMT > 0

\* lines 132-171
presence_matrix(df, years) ==
    [index   |-> quarter_index(df),
     columns |-> [n \in 1..Len(years) |-> << "wq", years[n], "P" >>],
     cell    |-> [t \in quarter_index(df) |->
                    [c \in {<< "wq", years[n], "P" >> : n \in 1..Len(years)} |->
                        convert_bitarray_to_string(
                            [q \in 1..Len(QUARTERS) |->
                                IF present_of(df, t, c[2], q) THEN 1 ELSE 0],
                            35, 95)]]]

\* lines 180-208: one of the two quarterly tables; col is "WageHR" or "WageAMT"
quarter_table(df, years, col, suffix) ==
    LET names == Flatten([n \in 1..Len(years) |->
                    [q \in 1..Len(QUARTERS) |-> << "wq", years[n], QUARTERS[q], suffix >>]])
        idx == quarter_index(df)
    IN  [index   |-> idx,
         columns |-> names,
         cell    |-> [t \in idx |->
                        [c \in {names[n] : n \in DOMAIN names} |->
                            LET f == first_row(df, t, c[2], c[3])
                            IN  IF f = None THEN 0 ELSE Get(f)[col]]]]

\* lines 215-242: one of the two annual tables
annual_table(df, years, col, suffix) ==
    LET names == [n \in 1..Len(years) |-> << "wq", years[n], suffix >>]
        idx == annual_index(df)
    IN  [index   |-> idx,
         columns |-> names,
         cell    |-> [t \in idx |->
                        [c \in {names[n] : n \in DOMAIN names} |->
                            LET f == first_row(df, t, c[2], "ANNUAL")
                            IN  IF f = None THEN 0 ELSE Get(f)[col]]]]

\* "1" < "2" < "3" < "4" < "ANNUAL" as str
term_rank(term) ==
    IF term = "ANNUAL" THEN 5 ELSE CHOOSE q \in DOMAIN QUARTERS : QUARTERS[q] = term

\* lines 246-261: per TokenID the row of the latest year and, in it, of the
\* greatest TermTypeCD
org_meta(df) ==
    LET idx == {df[i].TokenID : i \in DOMAIN df}
        top(t) == CHOOSE i \in DOMAIN df :
                    /\ df[i].TokenID = t
                    /\ \A j \in DOMAIN df : df[j].TokenID = t =>
                          \/ df[j].OrganizationYear < df[i].OrganizationYear
                          \/ /\ df[j].OrganizationYear = df[i].OrganizationYear
                             /\ term_rank(df[j].TermTypeCD) < term_rank(df[i].TermTypeCD)
                          \/ /\ df[j].OrganizationYear = df[i].OrganizationYear
                             /\ df[j].TermTypeCD = df[i].TermTypeCD
                             /\ i <= j
    IN  [index   |-> idx,
         columns |-> << <<"OrgID">>, <<"Organization">> >>,
         cell    |-> [t \in idx |->
                        (<<"OrgID">> :> df[top(t)].OrganizationID) @@
                        (<<"Organization">> :> df[top(t)].OrganizationTTL)]]

\* A cell of a table aligned on the index of another: NaN where the table
\* has no row for the TokenID.
aligned(table, t, c) == IF t \in table.index THEN Some(table.cell[t][c]) ELSE None

ColumnSet(table) == {table.columns[n] : n \in DOMAIN table.columns}

\* lines 104-114: concat(axis=1) is an outer join on the index, join(how="left")
\* keeps that index, reset_index() makes TokenID a column.
combine(tables, meta) ==
    LET idx == UNION {tables[n].index : n \in DOMAIN tables}
        names == Flatten([n \in DOMAIN tables |-> tables[n].columns])
        table_of(c) == tables[CHOOSE n \in DOMAIN tables : c \in ColumnSet(tables[n])]
    IN  [raised  |-> FALSE,
         index   |-> idx,
         columns |-> << <<"TokenID">> >> \o names \o meta.columns,
         cell    |-> [t \in idx |->
                        [c \in {<<"TokenID">>} \cup {names[n] : n \in DOMAIN names}
                                \cup ColumnSet(meta) |->
                            IF c = <<"TokenID">> THEN Some(t)
                            ELSE IF c \in ColumnSet(meta) THEN aligned(meta, t, c)
                            ELSE aligned(table_of(c), t, c)]]]

\* line 83: pd.DataFrame()
EmptyFrame == [raised |-> FALSE, index |-> {}, columns |-> <<>>, cell |-> <<>>]
\* prepare left by an exception
Raised == [raised |-> TRUE, index |-> {}, columns |-> <<>>, cell |-> <<>>]

the_years(df) == SortedSeq({df[i].OrganizationYear : i \in DOMAIN df})

\* lines 95-99: the bundles registered for apply_column_order
wage_bundles(df) ==
    LET years == the_years(df)
    IN  (<<"InWorkforceByQuarter">> :> presence_matrix(df, years).columns) @@
        (<<"WageHoursByQuarter">> :> quarter_table(df, years, "WageHR", "HR").columns) @@
        (<<"WagesByQuarter">> :> quarter_table(df, years, "WageAMT", "AMT").columns) @@
        (<<"WageHoursByYear">> :> annual_table(df, years, "WageHR", "HR").columns) @@
        (<<"WagesByYear">> :> annual_table(df, years, "WageAMT", "AMT").columns)

\* lines 86-115
prepare_combined(df) ==
    LET years == the_years(df)
    IN  combine(<< presence_matrix(df, years),
                   quarter_table(df, years, "WageHR", "HR"),
                   quarter_table(df, years, "WageAMT", "AMT"),
                   annual_table(df, years, "WageHR", "HR"),
                   annual_table(df, years, "WageAMT", "AMT") >>,
                org_meta(df))

\* A pivot_table over a selection without rows: whether it returns a table
\* without rows or raises depends on the pandas in use.
pivots_nothing(df) ==
    \/ \A i \in DOMAIN df : ~IsQuarter(df[i].TermTypeCD)
    \/ \A i \in DOMAIN df : df[i].TermTypeCD # "ANNUAL"

\* lines 59-117
prepare ==
    /\ wage_block = None
    /\ IF wage_df = <<>>
       THEN /\ wage_block' = Some(EmptyFrame)
            /\ UNCHANGED optional_cols
       ELSE LET df == housekeep(wage_df)
            IN  \/ /\ wage_block' = Some(prepare_combined(df))
                   /\ optional_cols' = wage_bundles(df)
                \/ /\ pivots_nothing(df)
                   /\ wage_block' = Some(Raised)
                   /\ UNCHANGED optional_cols
    /\ UNCHANGED << consume_vars, cluster_vars, codec_vars, smash_vars, k12_vars,
                    k12_df, k12_pre, bitarrays, wage_df, frame, column_order, result_df >>

NextWage ==
    \/ prepare

MaxWageRows == 2
WageTokenIDs == {1, 2}
WageYears == {2020, 2021}
TermTypeCDs == {"1", "2", "ANNUAL"}
\* (WageAMT in cents, WageHR): no wages, wages, the two sentinels
Pays == { <<0, 0>>, <<10000, 40>>, <<-999999, -9999>> }
WageRows ==
    { [TokenID |-> t, OrganizationYear |-> y, TermTypeCD |-> term,
       WageAMT |-> p[1], WageHR |-> p[2],
       OrganizationID |-> y - 2000,
       OrganizationTTL |-> IF y = 2020 THEN "Org A" ELSE "Org B"] :
      t \in WageTokenIDs, y \in WageYears, term \in TermTypeCDs, p \in Pays }

InitWage ==
    /\ NoConsume
    /\ ClusterIdle
    /\ CodecIdle
    /\ SmashIdle
    /\ K12Idle
    /\ k12_df = <<>>
    /\ k12_pre = None
    /\ bitarrays = None
    /\ wage_df \in SeqsUpTo(WageRows, MaxWageRows)
    /\ wage_block = None
    /\ optional_cols = <<>>
    /\ frame = [columns |-> <<>>, rows |-> <<>>]
    /\ column_order = <<>>
    /\ result_df = None

SpecWage == InitWage /\ [][NextWage]_vars

\* The TokenIDs, years and rows of the wage input.
InputWageTokens == {wage_df[i].TokenID : i \in DOMAIN wage_df}
ObservedYears == {wage_df[i].OrganizationYear : i \in DOMAIN wage_df}
RowsOf(t, y, term) ==
    {i \in DOMAIN wage_df : /\ wage_df[i].TokenID = t
                            /\ wage_df[i].OrganizationYear = y
                            /\ wage_df[i].TermTypeCD = term}
Prepared == wage_block # None /\ ~Get(wage_block).raised /\ wage_df # <<>>

\* C22: in the prepared block, for every Token, observed year and quarter
\* q, character q of the Token's presence string of that year is '#' exactly
\* when some wage row of that Token, year and quarter has an amount > 0
\* (a sentinel amount counts as 0), also with several rows of a quarter.
C22_PresenceIffSomeRowHasWages ==
    Prepared =>
        \A t \in Get(wage_block).index, y \in ObservedYears, q \in DOMAIN QUARTERS :
            LET c == Get(wage_block).cell[t][<< "wq", y, "P" >>]
            IN  c # None =>
                   (Get(c)[q] = 35 <=>
                        \E i \in RowsOf(t, y, QUARTERS[q]) : wage_df[i].WageAMT > 0)

\* The columns of the five families for the observed years.
FamilyColumns ==
    UNION { {<< "wq", y, "P" >>, << "wq", y, "HR" >>, << "wq", y, "AMT" >>}
            \cup {<< "wq", y, QUARTERS[q], s >> : q \in DOMAIN QUARTERS, s \in {"HR", "AMT"}}
            : y \in ObservedYears }

\* C23: in the prepared block every Token of the wage input has a row with
\* every column of the five families for every observed year, and none of
\* these cells is a missing value, also for a Token with only ANNUAL rows
\* or only quarterly rows.
C23_EveryTokenHasEveryCellFilled ==
    Prepared =>
        \A t \in InputWageTokens :
            /\ t \in Get(wage_block).index
            /\ \A c \in FamilyColumns :
                  /\ c \in DOMAIN Get(wage_block).cell[t]
                  /\ Get(wage_block).cell[t][c] # None

(***************************************************************************)
(* worksheet_utils.py: apply_column_order.  A frame is its columns and its *)
(* rows; a row maps every column to its value.  Names are their parts, as  *)
(* above; a family name is <<"InWorkforceByQuarter">>.                      *)
(***************************************************************************)
InSeq(x, s) == \E i \in DOMAIN s : s[i] = x

\* line 79: optional_column_lists.get(entry["ColumnName"], [])
dict_get(d, k) == IF k \in DOMAIN d THEN d[k] ELSE <<>>

\* lines 79-83
available_columns(optional, family, cols) ==
    SelectSeq(dict_get(optional, family), LAMBDA col : InSeq(col, cols))

add_nothing(cols, nm) == cols
\* lines 65-69: worksheet_df[name] = "" adds a Required column that is missing
add_if_missing(cols, nm) == IF InSeq(nm, cols) THEN cols ELSE Append(cols, nm)

\* lines 63-89: the loop; cols are the columns of worksheet_df, which grow
\* by line 69, final is final_columns
RECURSIVE order_scan(_, _, _, _)
order_scan(entries, optional, cols, final) ==
    IF entries = <<>> THEN [cols |-> cols, final |-> final]
    ELSE LET entry == Head(entries)
             nm == entry.ColumnName
         IN  IF entry.ColumnType = 0
             THEN order_scan(Tail(entries), optional,
                             add_if_missing(cols, nm),
                             Append(final, nm))
             ELSE IF entry.ColumnType = 1
             THEN order_scan(Tail(entries), optional, cols,
                             IF InSeq(nm, cols) THEN Append(final, nm) ELSE final)
             ELSE IF entry.ColumnType = 2
             THEN order_scan(Tail(entries), optional, cols,
                             final \o available_columns(optional, nm, cols))
             ELSE order_scan(Tail(entries), optional, cols, final)

\* line 69: worksheet_df[name] = "" for the columns the loop added
with_columns(df, cols) ==
    [columns |-> cols,
     rows    |-> [i \in 1..Len(df.rows) |->
                    [c \in {cols[n] : n \in DOMAIN cols} |->
                        IF InSeq(c, df.columns) THEN df.rows[i][c] ELSE ""]]]

\* lines 92-97
missing_required_columns(entries, cols) ==
    SelectSeq(entries, LAMBDA entry : entry.ColumnType = 0 /\ ~InSeq(entry.ColumnName, cols))

\* line 103: worksheet_df.loc[:, final_columns]
loc_columns(df, final) ==
    [columns |-> final,
     rows    |-> [i \in 1..Len(df.rows) |->
                    [c \in {final[n] : n \in DOMAIN final} |-> df.rows[i][c]]]]

\* lines 39-104
apply_column_order ==
    /\ result_df = None
    /\ LET scan == order_scan(column_order, optional_cols, frame.columns, <<>>)
           df == with_columns(frame, scan.cols)
       IN  /\ frame' = df
           /\ result_df' =
                IF missing_required_columns(column_order, df.columns) # <<>>
                THEN Some([raised |-> TRUE, columns |-> <<>>, rows |-> <<>>])
                ELSE Some([raised |-> FALSE] @@ loc_columns(df, scan.final))
    /\ UNCHANGED << consume_vars, cluster_vars, codec_vars, smash_vars, k12_vars,
                    k12_df, k12_pre, bitarrays, wage_df, wage_block, optional_cols,
                    column_order >>

NextOrder ==
    \/ apply_column_order

MaxEntries == 3
MaxColumns == 3
Required == 0
Optional == 1
Dynamic == 2
\* The configured entries: two Required, one Optional, two Dynamic families.
Entries ==
    { [ColumnName |-> <<"TokenID">>, ColumnType |-> Required],
      [ColumnName |-> <<"GroupID">>, ColumnType |-> Required],
      [ColumnName |-> <<"Notes">>, ColumnType |-> Optional],
      [ColumnName |-> <<"InWorkforceByQuarter">>, ColumnType |-> Dynamic],
      [ColumnName |-> <<"WagesByYear">>, ColumnType |-> Dynamic] }
\* Configurations: every ColumnName is configured once.
ColumnOrders ==
    {s \in SeqsUpTo(Entries, MaxEntries) : \A i, j \in DOMAIN s : s[i] = s[j] => i = j}
FrameColumns ==
    << <<"TokenID">>, <<"GroupID">>, <<"Notes">>,
       <<"wq", 2020, "P">>, <<"wq", 2021, "P">>, <<"wq", 2020, "AMT">> >>
Frames ==
    { [columns |-> SelectSeq(FrameColumns, LAMBDA c : c \in S),
       rows    |-> [i \in 1..n |-> [c \in S |-> "x"]]] :
      S \in {T \in SUBSET {FrameColumns[k] : k \in DOMAIN FrameColumns} :
                Cardinality(T) <= MaxColumns},
      n \in 0..1 }
\* What the aggregators registered: nothing, one family, both families.
OptionalColumnLists ==
    { <<>>,
      (<<"InWorkforceByQuarter">> :> << <<"wq", 2020, "P">>, <<"wq", 2021, "P">> >>),
      (<<"InWorkforceByQuarter">> :> << <<"wq", 2021, "P">>, <<"wq", 2020, "P">> >>) @@
      (<<"WagesByYear">> :> << <<"wq", 2020, "AMT">> >>),
      (<<"WagesByYear">> :> << <<"wq", 2020, "AMT">>, <<"wq", 2021, "AMT">> >>) }

InitOrder ==
    /\ NoConsume
    /\ ClusterIdle
    /\ CodecIdle
    /\ SmashIdle
    /\ K12Idle
    /\ k12_df = <<>>
    /\ k12_pre = None
    /\ bitarrays = None
    /\ wage_df = <<>>
    /\ wage_block = None
    /\ optional_cols \in OptionalColumnLists
    /\ frame \in Frames
    /\ column_order \in ColumnOrders
    /\ result_df = None

SpecOrder == InitOrder /\ [][NextOrder]_vars

\* The columns registered for a family, none when it was never registered.
Registered(family) ==
    IF family \in DOMAIN optional_cols THEN optional_cols[family] ELSE <<>>
PositionIn(s, x) == CHOOSE i \in DOMAIN s : s[i] = x
\* Entry e of the configuration can put column c into the result.
Contributes(e, c) ==
    IF column_order[e].ColumnType = Dynamic
    THEN InSeq(c, Registered(column_order[e].ColumnName))
    ELSE c = column_order[e].ColumnName

\* What a call of apply_column_order on the table frame has to return.
OrderedAsConfigured(table, r) ==
    /\ ~r.raised
    /\ Len(r.rows) = Len(table.rows)
    /\ \A e \in DOMAIN column_order :
          LET nm == column_order[e].ColumnName
          IN  /\ column_order[e].ColumnType = Required =>
                    /\ InSeq(nm, r.columns)
                    /\ \A i \in DOMAIN r.rows :
                          r.rows[i][nm] = IF InSeq(nm, table.columns)
                                          THEN table.rows[i][nm] ELSE ""
              /\ column_order[e].ColumnType = Optional =>
                    (InSeq(nm, r.columns) <=> InSeq(nm, table.columns))
              /\ column_order[e].ColumnType = Dynamic =>
                    {c \in {r.columns[p] : p \in DOMAIN r.columns} : InSeq(c, Registered(nm))}
                        = {c \in {Registered(nm)[p] : p \in DOMAIN Registered(nm)} :
                               InSeq(c, table.columns)}
    /\ \A p \in DOMAIN r.columns : \E e \in DOMAIN column_order : Contributes(e, r.columns[p])
    /\ \A p, q \in DOMAIN r.columns :
          p < q =>
              /\ r.columns[p] # r.columns[q]
              /\ \A e, f \in DOMAIN column_order :
                    (Contributes(e, r.columns[p]) /\ Contributes(f, r.columns[q])) =>
                        /\ e <= f
                        /\ (e = f) =>
                              PositionIn(Registered(column_order[e].ColumnName), r.columns[p])
                                < PositionIn(Registered(column_order[e].ColumnName), r.columns[q])

====
